---- MODULE Spec2Model ----
(***************************************************************************)
(* TD Sequential engine of calculate_tds.py: calculate_tdsequential and    *)
(* the passes it runs over the bar series, one after the other.            *)
(*                                                                         *)
(* The data frame is a sequence of rows; the row of Python index i is      *)
(* df[i + 1] (At(df, i)).  Prices are integers (ticks).  A missing value   *)
(* (np.nan) in a price column is NaN; an unset local (None) is None.       *)
(*                                                                         *)
(* input is what the caller's frame has besides its prices: the names of   *)
(* its columns as the caller spelled them and its index, one timestamp per *)
(* row.  df is the copy of the rows that the passes work on.               *)
(*                                                                         *)
(* apply_simple_strategy of calculate_eqcrv.py works on a frame as well,   *)
(* and the portfolio forms of portfolio_management.py on the tables User   *)
(* and StockAsset of models.py, empty while the engine runs.               *)
(***************************************************************************)
EXTENDS Integers, Sequences, FiniteSets, TLC

VARIABLES df, pc, input, User, StockAsset
vars == <<df, pc, input, User, StockAsset>>

NaN == -1000
None == -1001

SETUP_LEN == 9
COUNTDOWN_LEN == 13
SETUP_LOOKBACK == 4
COUNTDOWN_LOOKBACK == 2
PERFECT_LOOKBACK == 3
STOP_SEARCH == 30

isna(x) == x = NaN

At(d, i) == d[i + 1]
Put(d, i, row) == [d EXCEPT ![i + 1] = row]

Max(a, b) == IF a >= b THEN a ELSE b
Min(a, b) == IF a <= b THEN a ELSE b

\* max / min of one column over a set of row indices (Series.max, Series.min)
RECURSIVE max_high(_, _, _)
max_high(d, lo, hi) ==
    IF lo = hi THEN At(d, lo).high ELSE Max(At(d, lo).high, max_high(d, lo + 1, hi))

RECURSIVE min_low(_, _, _)
min_low(d, lo, hi) ==
    IF lo = hi THEN At(d, lo).low ELSE Min(At(d, lo).low, min_low(d, lo + 1, hi))

(***************************************************************************)
(* _preprocess_dataframe: the column names lowered and the required ones   *)
(* looked up, then the derived and the initialised columns.                *)
(***************************************************************************)
\* str.lower on the column names that occur
\* as str_lower, the name left as the caller spelled it
str_as_spelled(col) == col

str_lower(col) ==
    CASE col \in {"open", "Open", "OPEN"} -> "open"
      [] col \in {"high", "High", "HIGH"} -> "high"
      [] col \in {"low", "Low", "LOW"} -> "low"
      [] col \in {"close", "Close", "CLOSE"} -> "close"
      [] col \in {"volume", "Volume", "VOLUME"} -> "volume"
      [] col \in {"date", "Date", "DATE"} -> "date"
      [] OTHER -> col

lowercase_columns(columns) == {str_lower(col) : col \in columns}

required_cols == {"open", "high", "low", "close"}

\* the required columns the check does not find among the lowered names
missing_cols(columns) == {col \in required_cols : col \notin lowercase_columns(columns)}

\* as close_4_periods_ago, the column shifted the other way (shift(-4))
close_4_periods_ahead(bars, i) ==
    IF i + SETUP_LOOKBACK < Len(bars) THEN At(bars, i + SETUP_LOOKBACK).close ELSE NaN

\* as close_4_periods_ago, the column shifted by one bar less
close_3_periods_ago(bars, i) ==
    IF i >= SETUP_LOOKBACK - 1 THEN At(bars, i - (SETUP_LOOKBACK - 1)).close ELSE NaN

close_4_periods_ago(bars, i) ==
    IF i >= SETUP_LOOKBACK THEN At(bars, i - SETUP_LOOKBACK).close ELSE NaN

\* as buy_setup_condition, written as the negation of close >= close_4_periods_ago,
\* which is true of a missing value
buy_setup_condition_negated(bars, i) ==
    ~( /\ ~isna(close_4_periods_ago(bars, i))
       /\ At(bars, i).close >= close_4_periods_ago(bars, i) )

buy_setup_condition(bars, i) ==
    /\ ~isna(close_4_periods_ago(bars, i))
    /\ At(bars, i).close < close_4_periods_ago(bars, i)

sell_setup_condition(bars, i) ==
    /\ ~isna(close_4_periods_ago(bars, i))
    /\ At(bars, i).close > close_4_periods_ago(bars, i)

preprocess_row(bars, i) ==
    [ high |-> At(bars, i).high, low |-> At(bars, i).low, close |-> At(bars, i).close,
      close_4_periods_ago |-> close_4_periods_ago(bars, i),
      buy_setup_condition |-> buy_setup_condition(bars, i),
      sell_setup_condition |-> sell_setup_condition(bars, i),
      buy_setup |-> 0, sell_setup |-> 0,
      buy_tdst_level |-> NaN, sell_tdst_level |-> NaN,
      buy_tdst_active |-> FALSE, sell_tdst_active |-> FALSE,
      buy_setup_stop |-> NaN, sell_setup_stop |-> NaN,
      buy_setup_stop_active |-> FALSE, sell_setup_stop_active |-> FALSE,
      buy_countdown_stop |-> NaN, sell_countdown_stop |-> NaN,
      buy_countdown_stop_active |-> FALSE, sell_countdown_stop_active |-> FALSE,
      buy_countdown |-> 0, sell_countdown |-> 0,
      buy_countdown_active |-> 0, sell_countdown_active |-> 0,
      perfect_buy_13 |-> 0, perfect_sell_13 |-> 0,
      perfect_buy_9 |-> 0, perfect_sell_9 |-> 0,
      buy_stop_triggered |-> FALSE, sell_stop_triggered |-> FALSE,
      buy_stop_reactivated |-> FALSE, sell_stop_reactivated |-> FALSE,
      buy_countdown_stop_triggered |-> FALSE, sell_countdown_stop_triggered |-> FALSE,
      buy_countdown_stop_reactivated |-> FALSE, sell_countdown_stop_reactivated |-> FALSE ]

preprocess_dataframe(bars) == [k \in 1..Len(bars) |-> preprocess_row(bars, k - 1)]

(***************************************************************************)
(* _calculate_setup_phases                                                 *)
(***************************************************************************)
\* as next_buy_setup, the run counted on past its ninth bar
next_buy_setup_past_nine(d, i) ==
    IF At(d, i).buy_setup_condition
    THEN IF At(d, i - 1).buy_setup > 0 /\ At(d, i - 1).buy_setup <= SETUP_LEN
         THEN At(d, i - 1).buy_setup + 1
         ELSE 1
    ELSE 0

\* as next_buy_setup, a run that has reached nine starting again from 0
next_buy_setup_rest_after_nine(d, i) ==
    IF At(d, i).buy_setup_condition /\ At(d, i - 1).buy_setup # SETUP_LEN
    THEN IF At(d, i - 1).buy_setup > 0 THEN At(d, i - 1).buy_setup + 1 ELSE 1
    ELSE 0

next_buy_setup(d, i) ==
    IF At(d, i).buy_setup_condition
    THEN IF At(d, i - 1).buy_setup > 0 /\ At(d, i - 1).buy_setup < SETUP_LEN
         THEN At(d, i - 1).buy_setup + 1
         ELSE 1
    ELSE 0

next_sell_setup(d, i) ==
    IF At(d, i).sell_setup_condition
    THEN IF At(d, i - 1).sell_setup > 0 /\ At(d, i - 1).sell_setup < SETUP_LEN
         THEN At(d, i - 1).sell_setup + 1
         ELSE 1
    ELSE 0

setup_step(d, i) ==
    Put(d, i, [At(d, i) EXCEPT !.buy_setup = next_buy_setup(d, i),
                               !.sell_setup = next_sell_setup(d, i)])

RECURSIVE setup_loop(_, _)
setup_loop(d, i) == IF i >= Len(d) THEN d ELSE setup_loop(setup_step(d, i), i + 1)

calculate_setup_phases(d) == setup_loop(d, 1)

(***************************************************************************)
(* _calculate_buy_stop_level / _calculate_sell_stop_level: the extreme of  *)
(* the window pushed out by the range of the first bar that made it.       *)
(***************************************************************************)
RECURSIVE first_low_bar(_, _, _)
first_low_bar(d, lo, v) == IF At(d, lo).low = v THEN lo ELSE first_low_bar(d, lo + 1, v)

RECURSIVE first_high_bar(_, _, _)
first_high_bar(d, lo, v) == IF At(d, lo).high = v THEN lo ELSE first_high_bar(d, lo + 1, v)

\* as calculate_buy_stop_level, with the range of the last bar that made the low
RECURSIVE last_low_bar(_, _, _)
last_low_bar(d, hi, v) == IF At(d, hi).low = v THEN hi ELSE last_low_bar(d, hi - 1, v)

calculate_buy_stop_level_last_bar(d, lo, hi) ==
    LET buy_stop == min_low(d, lo, hi)
        b == last_low_bar(d, hi, buy_stop)
        bar_range == At(d, b).high - At(d, b).low
    IN  buy_stop - bar_range

calculate_buy_stop_level(d, lo, hi) ==
    LET buy_stop == min_low(d, lo, hi)
        b == first_low_bar(d, lo, buy_stop)
        bar_range == At(d, b).high - At(d, b).low
    IN  buy_stop - bar_range

calculate_sell_stop_level(d, lo, hi) ==
    LET sell_stop == max_high(d, lo, hi)
        b == first_high_bar(d, lo, sell_stop)
        bar_range == At(d, b).high - At(d, b).low
    IN  sell_stop + bar_range

(***************************************************************************)
(* _calculate_tdst_and_stop_levels.  s carries the data frame and the      *)
(* loop's locals; each operator below is one block of the loop body.       *)
(***************************************************************************)
levels_init(d) ==
    [ df |-> d,
      current_buy_tdst |-> None, current_sell_tdst |-> None,
      current_buy_stop |-> None, current_sell_stop |-> None,
      inactive_buy_stop |-> None, inactive_sell_stop |-> None,
      buy_stop_triggered |-> FALSE, sell_stop_triggered |-> FALSE ]

levels_cancel_buy_tdst(s, i) ==
    IF s.current_buy_tdst # None /\ At(s.df, i).close > s.current_buy_tdst
    THEN [s EXCEPT !.current_buy_tdst = None,
                   !.df = Put(s.df, i, [At(s.df, i) EXCEPT !.buy_tdst_active = FALSE])]
    ELSE s

levels_cancel_sell_tdst(s, i) ==
    IF s.current_sell_tdst # None /\ At(s.df, i).close < s.current_sell_tdst
    THEN [s EXCEPT !.current_sell_tdst = None,
                   !.df = Put(s.df, i, [At(s.df, i) EXCEPT !.sell_tdst_active = FALSE])]
    ELSE s

levels_trigger_buy_stop(s, i) ==
    IF s.current_buy_stop # None /\ At(s.df, i).low <= s.current_buy_stop
    THEN [s EXCEPT !.inactive_buy_stop = s.current_buy_stop,
                   !.current_buy_stop = None,
                   !.buy_stop_triggered = TRUE,
                   !.df = Put(s.df, i, [At(s.df, i) EXCEPT !.buy_setup_stop_active = FALSE])]
    ELSE s

levels_trigger_sell_stop(s, i) ==
    IF s.current_sell_stop # None /\ At(s.df, i).high >= s.current_sell_stop
    THEN [s EXCEPT !.inactive_sell_stop = s.current_sell_stop,
                   !.current_sell_stop = None,
                   !.sell_stop_triggered = TRUE,
                   !.df = Put(s.df, i, [At(s.df, i) EXCEPT !.sell_setup_stop_active = FALSE])]
    ELSE s

levels_reactivate_buy_stop(s, i) ==
    IF /\ s.inactive_buy_stop # None
       /\ s.buy_stop_triggered
       /\ At(s.df, i).low > s.inactive_buy_stop
    THEN [s EXCEPT !.current_buy_stop = s.inactive_buy_stop,
                   !.inactive_buy_stop = None,
                   !.buy_stop_triggered = FALSE,
                   !.df = Put(s.df, i, [At(s.df, i) EXCEPT
                                           !.buy_setup_stop = s.inactive_buy_stop,
                                           !.buy_setup_stop_active = TRUE])]
    ELSE s

levels_reactivate_sell_stop(s, i) ==
    IF /\ s.inactive_sell_stop # None
       /\ s.sell_stop_triggered
       /\ At(s.df, i).high < s.inactive_sell_stop
    THEN [s EXCEPT !.current_sell_stop = s.inactive_sell_stop,
                   !.inactive_sell_stop = None,
                   !.sell_stop_triggered = FALSE,
                   !.df = Put(s.df, i, [At(s.df, i) EXCEPT
                                           !.sell_setup_stop = s.inactive_sell_stop,
                                           !.sell_setup_stop_active = TRUE])]
    ELSE s

\* as setup_start, the window one bar too long
setup_start_ten_bars(i) == Max(0, i - SETUP_LEN)

setup_start(i) == Max(0, i - (SETUP_LEN - 1))

levels_new_buy_setup(s, i) ==
    IF At(s.df, i).buy_setup = SETUP_LEN
    THEN LET tdst == max_high(s.df, setup_start(i), i)
             stop == calculate_buy_stop_level(s.df, setup_start(i), i)
         IN  [s EXCEPT !.current_buy_tdst = tdst,
                       !.current_buy_stop = stop,
                       !.inactive_buy_stop = None,
                       !.buy_stop_triggered = FALSE,
                       !.df = Put(s.df, i, [At(s.df, i) EXCEPT
                                               !.buy_tdst_level = tdst,
                                               !.buy_tdst_active = TRUE,
                                               !.buy_setup_stop = stop,
                                               !.buy_setup_stop_active = TRUE])]
    ELSE s

levels_new_sell_setup(s, i) ==
    IF At(s.df, i).sell_setup = SETUP_LEN
    THEN LET tdst == min_low(s.df, setup_start(i), i)
             stop == calculate_sell_stop_level(s.df, setup_start(i), i)
         IN  [s EXCEPT !.current_sell_tdst = tdst,
                       !.current_sell_stop = stop,
                       !.inactive_sell_stop = None,
                       !.sell_stop_triggered = FALSE,
                       !.df = Put(s.df, i, [At(s.df, i) EXCEPT
                                               !.sell_tdst_level = tdst,
                                               !.sell_tdst_active = TRUE,
                                               !.sell_setup_stop = stop,
                                               !.sell_setup_stop_active = TRUE])]
    ELSE s

levels_step(s, i) ==
    levels_new_sell_setup(
      levels_new_buy_setup(
        levels_reactivate_sell_stop(
          levels_reactivate_buy_stop(
            levels_trigger_sell_stop(
              levels_trigger_buy_stop(
                levels_cancel_sell_tdst(
                  levels_cancel_buy_tdst(s, i), i), i), i), i), i), i), i)

RECURSIVE levels_loop(_, _)
levels_loop(s, i) == IF i >= Len(s.df) THEN s ELSE levels_loop(levels_step(s, i), i + 1)

calculate_tdst_and_stop_levels(d) == levels_loop(levels_init(d), 1).df

(***************************************************************************)
(* _forward_fill_levels.  One operator per block of the loop body, in the  *)
(* order of the code.                                                      *)
(***************************************************************************)
fill_init(d) ==
    [ df |-> d,
      buy_tdst_active |-> FALSE, sell_tdst_active |-> FALSE,
      buy_stop_active |-> FALSE, sell_stop_active |-> FALSE,
      buy_countdown_stop_active |-> FALSE, sell_countdown_stop_active |-> FALSE,
      last_buy_tdst |-> None, last_sell_tdst |-> None,
      last_buy_stop |-> None, last_sell_stop |-> None,
      last_buy_countdown_stop |-> None, last_sell_countdown_stop |-> None,
      inactive_buy_stop_ff |-> None, inactive_sell_stop_ff |-> None,
      inactive_buy_countdown_stop_ff |-> None, inactive_sell_countdown_stop_ff |-> None,
      buy_stop_triggered_ff |-> FALSE, sell_stop_triggered_ff |-> FALSE,
      buy_countdown_stop_triggered_ff |-> FALSE, sell_countdown_stop_triggered_ff |-> FALSE ]

fill_new_buy_tdst(s, i) ==
    IF ~isna(At(s.df, i).buy_tdst_level)
    THEN [s EXCEPT !.buy_tdst_active = TRUE, !.last_buy_tdst = At(s.df, i).buy_tdst_level]
    ELSE s

\* as fill_new_buy_stop, the memory of a triggered stop kept
fill_new_buy_stop_keeping_trigger(s, i) ==
    IF ~isna(At(s.df, i).buy_setup_stop)
    THEN [s EXCEPT !.buy_stop_active = TRUE,
                   !.last_buy_stop = At(s.df, i).buy_setup_stop]
    ELSE s

\* as fill_new_buy_stop, a stop still active not replaced
fill_new_buy_stop_unless_active(s, i) ==
    IF ~isna(At(s.df, i).buy_setup_stop) /\ ~s.buy_stop_active
    THEN [s EXCEPT !.buy_stop_active = TRUE,
                   !.last_buy_stop = At(s.df, i).buy_setup_stop,
                   !.inactive_buy_stop_ff = None,
                   !.buy_stop_triggered_ff = FALSE]
    ELSE s

fill_new_buy_stop(s, i) ==
    IF ~isna(At(s.df, i).buy_setup_stop)
    THEN [s EXCEPT !.buy_stop_active = TRUE,
                   !.last_buy_stop = At(s.df, i).buy_setup_stop,
                   !.inactive_buy_stop_ff = None,
                   !.buy_stop_triggered_ff = FALSE]
    ELSE s

\* as fill_new_sell_tdst, a new sell level taking the place of the buy level
fill_new_sell_tdst_replacing_buy(s, i) ==
    IF ~isna(At(s.df, i).sell_tdst_level)
    THEN [s EXCEPT !.sell_tdst_active = TRUE, !.last_sell_tdst = At(s.df, i).sell_tdst_level,
                   !.buy_tdst_active = FALSE]
    ELSE s

fill_new_sell_tdst(s, i) ==
    IF ~isna(At(s.df, i).sell_tdst_level)
    THEN [s EXCEPT !.sell_tdst_active = TRUE, !.last_sell_tdst = At(s.df, i).sell_tdst_level]
    ELSE s

fill_new_sell_stop(s, i) ==
    IF ~isna(At(s.df, i).sell_setup_stop)
    THEN [s EXCEPT !.sell_stop_active = TRUE,
                   !.last_sell_stop = At(s.df, i).sell_setup_stop,
                   !.inactive_sell_stop_ff = None,
                   !.sell_stop_triggered_ff = FALSE]
    ELSE s

fill_new_buy_countdown_stop(s, i) ==
    IF ~isna(At(s.df, i).buy_countdown_stop)
    THEN [s EXCEPT !.buy_countdown_stop_active = TRUE,
                   !.last_buy_countdown_stop = At(s.df, i).buy_countdown_stop,
                   !.inactive_buy_countdown_stop_ff = None,
                   !.buy_countdown_stop_triggered_ff = FALSE]
    ELSE s

fill_new_sell_countdown_stop(s, i) ==
    IF ~isna(At(s.df, i).sell_countdown_stop)
    THEN [s EXCEPT !.sell_countdown_stop_active = TRUE,
                   !.last_sell_countdown_stop = At(s.df, i).sell_countdown_stop,
                   !.inactive_sell_countdown_stop_ff = None,
                   !.sell_countdown_stop_triggered_ff = FALSE]
    ELSE s

\* as fill_cancel_buy_tdst, a close at the level cancelling it too
fill_cancel_buy_tdst_on_touch(s, i) ==
    IF s.buy_tdst_active /\ At(s.df, i).close >= s.last_buy_tdst
    THEN [s EXCEPT !.buy_tdst_active = FALSE,
                   !.df = Put(s.df, i, [At(s.df, i) EXCEPT !.buy_tdst_active = FALSE])]
    ELSE s

fill_cancel_buy_tdst(s, i) ==
    IF s.buy_tdst_active /\ At(s.df, i).close > s.last_buy_tdst
    THEN [s EXCEPT !.buy_tdst_active = FALSE,
                   !.df = Put(s.df, i, [At(s.df, i) EXCEPT !.buy_tdst_active = FALSE])]
    ELSE s

fill_cancel_sell_tdst(s, i) ==
    IF s.sell_tdst_active /\ At(s.df, i).close < s.last_sell_tdst
    THEN [s EXCEPT !.sell_tdst_active = FALSE,
                   !.df = Put(s.df, i, [At(s.df, i) EXCEPT !.sell_tdst_active = FALSE])]
    ELSE s

\* as fill_trigger_buy_stop, a low equal to the stop not triggering it
fill_trigger_buy_stop_below(s, i) ==
    IF s.buy_stop_active /\ At(s.df, i).low < s.last_buy_stop
    THEN [s EXCEPT !.buy_stop_active = FALSE,
                   !.inactive_buy_stop_ff = s.last_buy_stop,
                   !.buy_stop_triggered_ff = TRUE,
                   !.df = Put(s.df, i, [At(s.df, i) EXCEPT !.buy_setup_stop_active = FALSE])]
    ELSE s

fill_trigger_buy_stop(s, i) ==
    IF s.buy_stop_active /\ At(s.df, i).low <= s.last_buy_stop
    THEN [s EXCEPT !.buy_stop_active = FALSE,
                   !.inactive_buy_stop_ff = s.last_buy_stop,
                   !.buy_stop_triggered_ff = TRUE,
                   !.df = Put(s.df, i, [At(s.df, i) EXCEPT !.buy_setup_stop_active = FALSE])]
    ELSE s

fill_trigger_sell_stop(s, i) ==
    IF s.sell_stop_active /\ At(s.df, i).high >= s.last_sell_stop
    THEN [s EXCEPT !.sell_stop_active = FALSE,
                   !.inactive_sell_stop_ff = s.last_sell_stop,
                   !.sell_stop_triggered_ff = TRUE,
                   !.df = Put(s.df, i, [At(s.df, i) EXCEPT !.sell_setup_stop_active = FALSE])]
    ELSE s

fill_trigger_buy_countdown_stop(s, i) ==
    IF s.buy_countdown_stop_active /\ At(s.df, i).low <= s.last_buy_countdown_stop
    THEN [s EXCEPT !.buy_countdown_stop_active = FALSE,
                   !.inactive_buy_countdown_stop_ff = s.last_buy_countdown_stop,
                   !.buy_countdown_stop_triggered_ff = TRUE,
                   !.df = Put(s.df, i, [At(s.df, i) EXCEPT
                                           !.buy_countdown_stop_active = FALSE])]
    ELSE s

fill_trigger_sell_countdown_stop(s, i) ==
    IF s.sell_countdown_stop_active /\ At(s.df, i).high >= s.last_sell_countdown_stop
    THEN [s EXCEPT !.sell_countdown_stop_active = FALSE,
                   !.inactive_sell_countdown_stop_ff = s.last_sell_countdown_stop,
                   !.sell_countdown_stop_triggered_ff = TRUE,
                   !.df = Put(s.df, i, [At(s.df, i) EXCEPT
                                           !.sell_countdown_stop_active = FALSE])]
    ELSE s

\* as fill_reactivate_buy_stop, a low equal to the stop reactivating it
fill_reactivate_buy_stop_on_touch(s, i) ==
    IF /\ s.inactive_buy_stop_ff # None
       /\ s.buy_stop_triggered_ff
       /\ At(s.df, i).low >= s.inactive_buy_stop_ff
    THEN [s EXCEPT !.buy_stop_active = TRUE,
                   !.last_buy_stop = s.inactive_buy_stop_ff,
                   !.inactive_buy_stop_ff = None,
                   !.buy_stop_triggered_ff = FALSE,
                   !.df = Put(s.df, i, [At(s.df, i) EXCEPT
                                           !.buy_setup_stop = s.inactive_buy_stop_ff,
                                           !.buy_setup_stop_active = TRUE])]
    ELSE s

fill_reactivate_buy_stop(s, i) ==
    IF /\ s.inactive_buy_stop_ff # None
       /\ s.buy_stop_triggered_ff
       /\ At(s.df, i).low > s.inactive_buy_stop_ff
    THEN [s EXCEPT !.buy_stop_active = TRUE,
                   !.last_buy_stop = s.inactive_buy_stop_ff,
                   !.inactive_buy_stop_ff = None,
                   !.buy_stop_triggered_ff = FALSE,
                   !.df = Put(s.df, i, [At(s.df, i) EXCEPT
                                           !.buy_setup_stop = s.inactive_buy_stop_ff,
                                           !.buy_setup_stop_active = TRUE])]
    ELSE s

fill_reactivate_sell_stop(s, i) ==
    IF /\ s.inactive_sell_stop_ff # None
       /\ s.sell_stop_triggered_ff
       /\ At(s.df, i).high < s.inactive_sell_stop_ff
    THEN [s EXCEPT !.sell_stop_active = TRUE,
                   !.last_sell_stop = s.inactive_sell_stop_ff,
                   !.inactive_sell_stop_ff = None,
                   !.sell_stop_triggered_ff = FALSE,
                   !.df = Put(s.df, i, [At(s.df, i) EXCEPT
                                           !.sell_setup_stop = s.inactive_sell_stop_ff,
                                           !.sell_setup_stop_active = TRUE])]
    ELSE s

fill_reactivate_buy_countdown_stop(s, i) ==
    IF /\ s.inactive_buy_countdown_stop_ff # None
       /\ s.buy_countdown_stop_triggered_ff
       /\ At(s.df, i).low > s.inactive_buy_countdown_stop_ff
    THEN [s EXCEPT !.buy_countdown_stop_active = TRUE,
                   !.last_buy_countdown_stop = s.inactive_buy_countdown_stop_ff,
                   !.inactive_buy_countdown_stop_ff = None,
                   !.buy_countdown_stop_triggered_ff = FALSE,
                   !.df = Put(s.df, i, [At(s.df, i) EXCEPT
                                           !.buy_countdown_stop = s.inactive_buy_countdown_stop_ff,
                                           !.buy_countdown_stop_active = TRUE,
                                           !.buy_countdown_stop_reactivated = TRUE])]
    ELSE s

fill_reactivate_sell_countdown_stop(s, i) ==
    IF /\ s.inactive_sell_countdown_stop_ff # None
       /\ s.sell_countdown_stop_triggered_ff
       /\ At(s.df, i).high < s.inactive_sell_countdown_stop_ff
    THEN [s EXCEPT !.sell_countdown_stop_active = TRUE,
                   !.last_sell_countdown_stop = s.inactive_sell_countdown_stop_ff,
                   !.inactive_sell_countdown_stop_ff = None,
                   !.sell_countdown_stop_triggered_ff = FALSE,
                   !.df = Put(s.df, i, [At(s.df, i) EXCEPT
                                           !.sell_countdown_stop = s.inactive_sell_countdown_stop_ff,
                                           !.sell_countdown_stop_active = TRUE,
                                           !.sell_countdown_stop_reactivated = TRUE])]
    ELSE s

\* as fill_forward_buy_tdst, the flag carried forward without the level
fill_forward_buy_tdst_flag_only(s, i) ==
    IF s.buy_tdst_active
    THEN [s EXCEPT !.df = Put(s.df, i, [At(s.df, i) EXCEPT !.buy_tdst_active = TRUE])]
    ELSE s

fill_forward_buy_tdst(s, i) ==
    IF s.buy_tdst_active
    THEN [s EXCEPT !.df = Put(s.df, i, [At(s.df, i) EXCEPT
                                           !.buy_tdst_level = s.last_buy_tdst,
                                           !.buy_tdst_active = TRUE])]
    ELSE s

\* as fill_forward_sell_tdst, the last price written on after its cancellation
fill_forward_sell_tdst_price_kept(s, i) ==
    IF s.last_sell_tdst # None
    THEN [s EXCEPT !.df = Put(s.df, i, [At(s.df, i) EXCEPT
                                           !.sell_tdst_level = s.last_sell_tdst,
                                           !.sell_tdst_active = s.sell_tdst_active])]
    ELSE s

fill_forward_sell_tdst(s, i) ==
    IF s.sell_tdst_active
    THEN [s EXCEPT !.df = Put(s.df, i, [At(s.df, i) EXCEPT
                                           !.sell_tdst_level = s.last_sell_tdst,
                                           !.sell_tdst_active = TRUE])]
    ELSE s

fill_forward_buy_stop(s, i) ==
    IF s.buy_stop_active
    THEN [s EXCEPT !.df = Put(s.df, i, [At(s.df, i) EXCEPT
                                           !.buy_setup_stop = s.last_buy_stop,
                                           !.buy_setup_stop_active = TRUE])]
    ELSE s

fill_forward_sell_stop(s, i) ==
    IF s.sell_stop_active
    THEN [s EXCEPT !.df = Put(s.df, i, [At(s.df, i) EXCEPT
                                           !.sell_setup_stop = s.last_sell_stop,
                                           !.sell_setup_stop_active = TRUE])]
    ELSE s

fill_forward_buy_countdown_stop(s, i) ==
    IF s.buy_countdown_stop_active
    THEN [s EXCEPT !.df = Put(s.df, i, [At(s.df, i) EXCEPT
                                           !.buy_countdown_stop = s.last_buy_countdown_stop,
                                           !.buy_countdown_stop_active = TRUE])]
    ELSE s

fill_forward_sell_countdown_stop(s, i) ==
    IF s.sell_countdown_stop_active
    THEN [s EXCEPT !.df = Put(s.df, i, [At(s.df, i) EXCEPT
                                           !.sell_countdown_stop = s.last_sell_countdown_stop,
                                           !.sell_countdown_stop_active = TRUE])]
    ELSE s

fill_new_levels(s, i) ==
    fill_new_sell_countdown_stop(
      fill_new_buy_countdown_stop(
        fill_new_sell_stop(
          fill_new_sell_tdst(
            fill_new_buy_stop(
              fill_new_buy_tdst(s, i), i), i), i), i), i)

fill_cancellations(s, i) ==
    fill_trigger_sell_countdown_stop(
      fill_trigger_buy_countdown_stop(
        fill_trigger_sell_stop(
          fill_trigger_buy_stop(
            fill_cancel_sell_tdst(
              fill_cancel_buy_tdst(s, i), i), i), i), i), i)

fill_reactivations(s, i) ==
    fill_reactivate_sell_countdown_stop(
      fill_reactivate_buy_countdown_stop(
        fill_reactivate_sell_stop(
          fill_reactivate_buy_stop(s, i), i), i), i)

fill_forward(s, i) ==
    fill_forward_sell_countdown_stop(
      fill_forward_buy_countdown_stop(
        fill_forward_sell_stop(
          fill_forward_buy_stop(
            fill_forward_sell_tdst(
              fill_forward_buy_tdst(s, i), i), i), i), i), i)

fill_step(s, i) ==
    fill_forward(fill_reactivations(fill_cancellations(fill_new_levels(s, i), i), i), i)

RECURSIVE fill_loop(_, _)
fill_loop(s, i) == IF i >= Len(s.df) THEN s ELSE fill_loop(fill_step(s, i), i + 1)

forward_fill_levels(d) == fill_loop(fill_init(d), 0).df

(***************************************************************************)
(* _identify_perfect_setups                                                *)
(***************************************************************************)
\* as perfect_buy_9, a low equal to the low three bars back marking the bar
perfect_buy_9_on_equal(d, i) ==
    IF At(d, i).buy_setup = SETUP_LEN /\ At(d, i).low <= At(d, i - PERFECT_LOOKBACK).low
    THEN 1 ELSE At(d, i).perfect_buy_9

perfect_buy_9(d, i) ==
    IF At(d, i).buy_setup = SETUP_LEN /\ At(d, i).low < At(d, i - PERFECT_LOOKBACK).low
    THEN 1 ELSE At(d, i).perfect_buy_9

perfect_sell_9(d, i) ==
    IF At(d, i).sell_setup = SETUP_LEN /\ At(d, i).high > At(d, i - PERFECT_LOOKBACK).high
    THEN 1 ELSE At(d, i).perfect_sell_9

perfect_step(d, i) ==
    Put(d, i, [At(d, i) EXCEPT !.perfect_buy_9 = perfect_buy_9(d, i),
                               !.perfect_sell_9 = perfect_sell_9(d, i)])

RECURSIVE perfect_loop(_, _)
perfect_loop(d, i) == IF i >= Len(d) THEN d ELSE perfect_loop(perfect_step(d, i), i + 1)

identify_perfect_setups(d) == perfect_loop(d, 2)

(***************************************************************************)
(* _calculate_countdown_buy_stop_level / _calculate_countdown_sell_stop_   *)
(* level over the rows df.iloc[idx], idx a list of row indices.            *)
(***************************************************************************)
RECURSIVE min_low_of(_, _, _)
min_low_of(d, idx, k) ==
    IF k = Len(idx) THEN At(d, idx[k]).low
    ELSE Min(At(d, idx[k]).low, min_low_of(d, idx, k + 1))

RECURSIVE max_high_of(_, _, _)
max_high_of(d, idx, k) ==
    IF k = Len(idx) THEN At(d, idx[k]).high
    ELSE Max(At(d, idx[k]).high, max_high_of(d, idx, k + 1))

RECURSIVE first_low_of(_, _, _, _)
first_low_of(d, idx, k, v) ==
    IF At(d, idx[k]).low = v THEN idx[k] ELSE first_low_of(d, idx, k + 1, v)

RECURSIVE first_high_of(_, _, _, _)
first_high_of(d, idx, k, v) ==
    IF At(d, idx[k]).high = v THEN idx[k] ELSE first_high_of(d, idx, k + 1, v)

calculate_countdown_buy_stop_level(d, idx) ==
    LET buy_stop == min_low_of(d, idx, 1)
        b == first_low_of(d, idx, 1, buy_stop)
        bar_range == At(d, b).high - At(d, b).low
    IN  buy_stop - bar_range

calculate_countdown_sell_stop_level(d, idx) ==
    LET sell_stop == max_high_of(d, idx, 1)
        b == first_high_of(d, idx, 1, sell_stop)
        bar_range == At(d, b).high - At(d, b).low
    IN  sell_stop + bar_range

(***************************************************************************)
(* _calculate_countdown_phases, first pass: the countdown values.          *)
(***************************************************************************)
countdown_init(d) ==
    [ df |-> d,
      buy_countdown_bars |-> <<>>, sell_countdown_bars |-> <<>>,
      buy_countdown_active |-> FALSE, sell_countdown_active |-> FALSE,
      current_buy_setup_idx |-> None, current_sell_setup_idx |-> None,
      buy_tdst_level |-> None, sell_tdst_level |-> None ]

\* the opposite countdown, when active, is reset
\* as reset_sell_countdown, the sell countdown left running
reset_sell_countdown_skipped(s, i) == s

reset_sell_countdown(s, i) ==
    IF s.sell_countdown_active
    THEN [s EXCEPT !.sell_countdown_active = FALSE,
                   !.sell_countdown_bars = <<>>,
                   !.current_sell_setup_idx = None,
                   !.sell_tdst_level = None,
                   !.df = Put(s.df, i, [At(s.df, i) EXCEPT !.sell_countdown_active = 0,
                                                            !.sell_countdown = 0])]
    ELSE s

\* as reset_buy_countdown, the buy countdown left active in the loop
reset_buy_countdown_still_active(s, i) ==
    IF s.buy_countdown_active
    THEN [s EXCEPT !.buy_countdown_bars = <<>>,
                   !.current_buy_setup_idx = None,
                   !.buy_tdst_level = None,
                   !.df = Put(s.df, i, [At(s.df, i) EXCEPT !.buy_countdown_active = 0,
                                                            !.buy_countdown = 0])]
    ELSE s

reset_buy_countdown(s, i) ==
    IF s.buy_countdown_active
    THEN [s EXCEPT !.buy_countdown_active = FALSE,
                   !.buy_countdown_bars = <<>>,
                   !.current_buy_setup_idx = None,
                   !.buy_tdst_level = None,
                   !.df = Put(s.df, i, [At(s.df, i) EXCEPT !.buy_countdown_active = 0,
                                                            !.buy_countdown = 0])]
    ELSE s

\* as start_buy_countdown, the nine bars of the setup taken as counted already
start_buy_countdown_with_setup_bars(s, i) ==
    [s EXCEPT !.buy_countdown_active = TRUE,
              !.buy_countdown_bars = [k \in 1..SETUP_LEN |-> i - SETUP_LEN + k],
              !.current_buy_setup_idx = i,
              !.buy_tdst_level = max_high(s.df, i - (SETUP_LEN - 1), i),
              !.df = Put(s.df, i, [At(s.df, i) EXCEPT !.buy_countdown_active = 1])]

\* as start_buy_countdown, the reference taken over a window one bar too long
start_buy_countdown_ten_bar_window(s, i) ==
    [s EXCEPT !.buy_countdown_active = TRUE,
              !.buy_countdown_bars = <<>>,
              !.current_buy_setup_idx = i,
              !.buy_tdst_level = max_high(s.df, i - SETUP_LEN, i),
              !.df = Put(s.df, i, [At(s.df, i) EXCEPT !.buy_countdown_active = 1])]

\* as start_buy_countdown, the bars counted so far kept
start_buy_countdown_keeping_bars(s, i) ==
    [s EXCEPT !.buy_countdown_active = TRUE,
              !.current_buy_setup_idx = i,
              !.buy_tdst_level = max_high(s.df, i - (SETUP_LEN - 1), i),
              !.df = Put(s.df, i, [At(s.df, i) EXCEPT !.buy_countdown_active = 1])]

start_buy_countdown(s, i) ==
    [s EXCEPT !.buy_countdown_active = TRUE,
              !.buy_countdown_bars = <<>>,
              !.current_buy_setup_idx = i,
              !.buy_tdst_level = max_high(s.df, i - (SETUP_LEN - 1), i),
              !.df = Put(s.df, i, [At(s.df, i) EXCEPT !.buy_countdown_active = 1])]

start_sell_countdown(s, i) ==
    [s EXCEPT !.sell_countdown_active = TRUE,
              !.sell_countdown_bars = <<>>,
              !.current_sell_setup_idx = i,
              !.sell_tdst_level = min_low(s.df, i - (SETUP_LEN - 1), i),
              !.df = Put(s.df, i, [At(s.df, i) EXCEPT !.sell_countdown_active = 1])]

handle_buy_setup_completion(s, i) == start_buy_countdown(reset_sell_countdown(s, i), i)

handle_sell_setup_completion(s, i) == start_sell_countdown(reset_buy_countdown(s, i), i)

\* as buy_countdown_cancelled, a qualifying bar not cancelling
buy_countdown_cancelled_unless_qualifying(s, i) ==
    /\ s.buy_tdst_level # None /\ At(s.df, i).close > s.buy_tdst_level
    /\ ~(i >= COUNTDOWN_LOOKBACK /\ At(s.df, i).close <= At(s.df, i - COUNTDOWN_LOOKBACK).low)

buy_countdown_cancelled(s, i) ==
    s.buy_tdst_level # None /\ At(s.df, i).close > s.buy_tdst_level

\* as sell_countdown_cancelled, the test of the close against the level left out
sell_countdown_cancelled_never(s, i) == FALSE

sell_countdown_cancelled(s, i) ==
    s.sell_tdst_level # None /\ At(s.df, i).close < s.sell_tdst_level

\* as buy_countdown_qualifies, a close equal to the low two bars back not counting
buy_countdown_qualifies_strictly(d, i) ==
    i >= COUNTDOWN_LOOKBACK /\ At(d, i).close < At(d, i - COUNTDOWN_LOOKBACK).low

buy_countdown_qualifies(d, i) ==
    i >= COUNTDOWN_LOOKBACK /\ At(d, i).close <= At(d, i - COUNTDOWN_LOOKBACK).low

sell_countdown_qualifies(d, i) ==
    i >= COUNTDOWN_LOOKBACK /\ At(d, i).close >= At(d, i - COUNTDOWN_LOOKBACK).high

\* as perfect_buy_13, a close equal to the low of the eighth bar not marking
perfect_buy_13_strictly(d, bars, i) ==
    IF Len(bars) >= 8 /\ At(d, i).close < At(d, bars[8]).low
    THEN 1 ELSE At(d, i).perfect_buy_13

perfect_buy_13(d, bars, i) ==
    IF Len(bars) >= 8 /\ At(d, i).close <= At(d, bars[8]).low
    THEN 1 ELSE At(d, i).perfect_buy_13

perfect_sell_13(d, bars, i) ==
    IF Len(bars) >= 8 /\ At(d, i).close >= At(d, bars[8]).high
    THEN 1 ELSE At(d, i).perfect_sell_13

process_buy_countdown(s, i) ==
    LET d1 == Put(s.df, i, [At(s.df, i) EXCEPT !.buy_countdown_active = 1])
    IN  IF buy_countdown_cancelled(s, i)
        THEN [s EXCEPT !.buy_countdown_active = FALSE,
                       !.buy_countdown_bars = <<>>,
                       !.df = Put(d1, i, [At(d1, i) EXCEPT !.buy_countdown = 0])]
        ELSE IF buy_countdown_qualifies(s.df, i)
        THEN LET bars == Append(s.buy_countdown_bars, i)
                 current_count == Len(bars)
             IN  IF current_count = COUNTDOWN_LEN
                 THEN [s EXCEPT !.buy_countdown_bars = bars,
                                !.buy_countdown_active = FALSE,
                                !.df = Put(d1, i, [At(d1, i) EXCEPT
                                          !.buy_countdown = current_count,
                                          !.perfect_buy_13 = perfect_buy_13(d1, bars, i),
                                          !.buy_countdown_stop =
                                              calculate_countdown_buy_stop_level(d1, bars),
                                          !.buy_countdown_stop_active = TRUE])]
                 ELSE [s EXCEPT !.buy_countdown_bars = bars,
                                !.df = Put(d1, i, [At(d1, i) EXCEPT
                                          !.buy_countdown = current_count])]
        ELSE IF s.buy_countdown_bars # <<>>
        THEN [s EXCEPT !.df = Put(d1, i, [At(d1, i) EXCEPT
                                  !.buy_countdown = Len(s.buy_countdown_bars)])]
        ELSE [s EXCEPT !.df = d1]

process_sell_countdown(s, i) ==
    LET d1 == Put(s.df, i, [At(s.df, i) EXCEPT !.sell_countdown_active = 1])
    IN  IF sell_countdown_cancelled(s, i)
        THEN [s EXCEPT !.sell_countdown_active = FALSE,
                       !.sell_countdown_bars = <<>>,
                       !.df = Put(d1, i, [At(d1, i) EXCEPT !.sell_countdown = 0])]
        ELSE IF sell_countdown_qualifies(s.df, i)
        THEN LET bars == Append(s.sell_countdown_bars, i)
                 current_count == Len(bars)
             IN  IF current_count = COUNTDOWN_LEN
                 THEN [s EXCEPT !.sell_countdown_bars = bars,
                                !.sell_countdown_active = FALSE,
                                !.df = Put(d1, i, [At(d1, i) EXCEPT
                                          !.sell_countdown = current_count,
                                          !.perfect_sell_13 = perfect_sell_13(d1, bars, i),
                                          !.sell_countdown_stop =
                                              calculate_countdown_sell_stop_level(d1, bars),
                                          !.sell_countdown_stop_active = TRUE])]
                 ELSE [s EXCEPT !.sell_countdown_bars = bars,
                                !.df = Put(d1, i, [At(d1, i) EXCEPT
                                          !.sell_countdown = current_count])]
        ELSE IF s.sell_countdown_bars # <<>>
        THEN [s EXCEPT !.df = Put(d1, i, [At(d1, i) EXCEPT
                                  !.sell_countdown = Len(s.sell_countdown_bars)])]
        ELSE [s EXCEPT !.df = d1]

countdown_completions(s, i) ==
    LET s1 == IF At(s.df, i).buy_setup = SETUP_LEN
              THEN handle_buy_setup_completion(s, i) ELSE s
    IN  IF At(s1.df, i).sell_setup = SETUP_LEN
        THEN handle_sell_setup_completion(s1, i) ELSE s1

countdown_process(s, i) ==
    LET s1 == IF s.buy_countdown_active THEN process_buy_countdown(s, i) ELSE s
    IN  IF s1.sell_countdown_active THEN process_sell_countdown(s1, i) ELSE s1

countdown_step(s, i) == countdown_process(countdown_completions(s, i), i)

RECURSIVE countdown_loop(_, _)
countdown_loop(s, i) ==
    IF i >= Len(s.df) THEN s ELSE countdown_loop(countdown_step(s, i), i + 1)

countdown_first_pass(d) == countdown_loop(countdown_init(d), SETUP_LEN).df

(***************************************************************************)
(* _calculate_countdown_phases, second pass: for every bar whose countdown *)
(* value is 13, look back for 13 bars with a non-zero countdown value,     *)
(* compute the stop from them and write it forward.                        *)
(***************************************************************************)
RECURSIVE buy_lookback(_, _, _, _)
buy_lookback(d, j, lower, acc) ==
    IF j <= lower THEN acc
    ELSE IF At(d, j).buy_countdown > 0
         THEN IF Len(acc) + 1 >= COUNTDOWN_LEN THEN <<j>> \o acc
              ELSE buy_lookback(d, j - 1, lower, <<j>> \o acc)
         ELSE buy_lookback(d, j - 1, lower, acc)

RECURSIVE sell_lookback(_, _, _, _)
sell_lookback(d, j, lower, acc) ==
    IF j <= lower THEN acc
    ELSE IF At(d, j).sell_countdown > 0
         THEN IF Len(acc) + 1 >= COUNTDOWN_LEN THEN <<j>> \o acc
              ELSE sell_lookback(d, j - 1, lower, <<j>> \o acc)
         ELSE sell_lookback(d, j - 1, lower, acc)

RECURSIVE apply_buy_countdown_stop(_, _, _, _, _)
apply_buy_countdown_stop(d, i, completion_index, stop, active) ==
    IF i >= Len(d) THEN d
    ELSE LET hit == active /\ At(d, i).low <= stop
             now == active /\ ~hit
             d1 == Put(d, i, [At(d, i) EXCEPT
                        !.buy_countdown_stop_triggered = IF hit THEN TRUE ELSE @,
                        !.buy_countdown_stop = stop,
                        !.buy_countdown_stop_active = now])
         IN  IF i > completion_index /\ At(d, i).buy_countdown = COUNTDOWN_LEN
             THEN d1
             ELSE apply_buy_countdown_stop(d1, i + 1, completion_index, stop, now)

RECURSIVE apply_sell_countdown_stop(_, _, _, _, _)
apply_sell_countdown_stop(d, i, completion_index, stop, active) ==
    IF i >= Len(d) THEN d
    ELSE LET hit == active /\ At(d, i).high >= stop
             now == active /\ ~hit
             d1 == Put(d, i, [At(d, i) EXCEPT
                        !.sell_countdown_stop_triggered = IF hit THEN TRUE ELSE @,
                        !.sell_countdown_stop = stop,
                        !.sell_countdown_stop_active = now])
         IN  IF i > completion_index /\ At(d, i).sell_countdown = COUNTDOWN_LEN
             THEN d1
             ELSE apply_sell_countdown_stop(d1, i + 1, completion_index, stop, now)

buy_completion(d, completion_index) ==
    LET countdown_bars_indices ==
            buy_lookback(d, completion_index, Max(0, completion_index - STOP_SEARCH), <<>>)
    IN  IF Len(countdown_bars_indices) = COUNTDOWN_LEN
        THEN apply_buy_countdown_stop(d, completion_index, completion_index,
                 calculate_countdown_buy_stop_level(d, countdown_bars_indices), TRUE)
        ELSE d

sell_completion(d, completion_index) ==
    LET countdown_bars_indices ==
            sell_lookback(d, completion_index, Max(0, completion_index - STOP_SEARCH), <<>>)
    IN  IF Len(countdown_bars_indices) = COUNTDOWN_LEN
        THEN apply_sell_countdown_stop(d, completion_index, completion_index,
                 calculate_countdown_sell_stop_level(d, countdown_bars_indices), TRUE)
        ELSE d

RECURSIVE buy_completions_loop(_, _)
buy_completions_loop(d, i) ==
    IF i >= Len(d) THEN d
    ELSE IF At(d, i).buy_countdown = COUNTDOWN_LEN
         THEN buy_completions_loop(buy_completion(d, i), i + 1)
         ELSE buy_completions_loop(d, i + 1)

RECURSIVE sell_completions_loop(_, _)
sell_completions_loop(d, i) ==
    IF i >= Len(d) THEN d
    ELSE IF At(d, i).sell_countdown = COUNTDOWN_LEN
         THEN sell_completions_loop(sell_completion(d, i), i + 1)
         ELSE sell_completions_loop(d, i + 1)

countdown_second_pass(d) == sell_completions_loop(buy_completions_loop(d, 0), 0)

(***************************************************************************)
(* _calculate_countdown_phases, reactivation of the countdown stops.       *)
(***************************************************************************)
RECURSIVE buy_reactivated_forward(_, _, _)
buy_reactivated_forward(d, j, reactivation_level) ==
    IF j >= Len(d) THEN d
    ELSE IF At(d, j).low <= reactivation_level
         THEN Put(d, j, [At(d, j) EXCEPT !.buy_countdown_stop_active = FALSE,
                                         !.buy_countdown_stop_triggered = TRUE])
         ELSE buy_reactivated_forward(
                  Put(d, j, [At(d, j) EXCEPT !.buy_countdown_stop_active = TRUE]),
                  j + 1, reactivation_level)

RECURSIVE sell_reactivated_forward(_, _, _)
sell_reactivated_forward(d, j, reactivation_level) ==
    IF j >= Len(d) THEN d
    ELSE IF At(d, j).high >= reactivation_level
         THEN Put(d, j, [At(d, j) EXCEPT !.sell_countdown_stop_active = FALSE,
                                         !.sell_countdown_stop_triggered = TRUE])
         ELSE sell_reactivated_forward(
                  Put(d, j, [At(d, j) EXCEPT !.sell_countdown_stop_active = TRUE]),
                  j + 1, reactivation_level)

reactivate_buy_countdown_stop(d, i) ==
    IF /\ i > 0
       /\ ~At(d, i - 1).buy_countdown_stop_active
       /\ ~isna(At(d, i).buy_countdown_stop)
       /\ At(d, i - 1).buy_countdown_stop_triggered
       /\ At(d, i).low > At(d, i).buy_countdown_stop
    THEN buy_reactivated_forward(
             Put(d, i, [At(d, i) EXCEPT !.buy_countdown_stop_active = TRUE,
                                        !.buy_countdown_stop_reactivated = TRUE]),
             i + 1, At(d, i).buy_countdown_stop)
    ELSE d

reactivate_sell_countdown_stop(d, i) ==
    IF /\ i > 0
       /\ ~At(d, i - 1).sell_countdown_stop_active
       /\ ~isna(At(d, i).sell_countdown_stop)
       /\ At(d, i - 1).sell_countdown_stop_triggered
       /\ At(d, i).high < At(d, i).sell_countdown_stop
    THEN sell_reactivated_forward(
             Put(d, i, [At(d, i) EXCEPT !.sell_countdown_stop_active = TRUE,
                                        !.sell_countdown_stop_reactivated = TRUE]),
             i + 1, At(d, i).sell_countdown_stop)
    ELSE d

RECURSIVE countdown_reactivation_loop(_, _)
countdown_reactivation_loop(d, i) ==
    IF i >= Len(d) THEN d
    ELSE countdown_reactivation_loop(
             reactivate_sell_countdown_stop(reactivate_buy_countdown_stop(d, i), i), i + 1)

calculate_countdown_phases(d) ==
    countdown_reactivation_loop(countdown_second_pass(countdown_first_pass(d)), 1)

(***************************************************************************)
(* _identify_stop_events                                                   *)
(***************************************************************************)
buy_stop_triggered(d, i) ==
    /\ At(d, i - 1).buy_setup_stop_active = TRUE
    /\ At(d, i).buy_setup_stop_active = FALSE
    /\ ~isna(At(d, i - 1).buy_setup_stop)

sell_stop_triggered(d, i) ==
    /\ At(d, i - 1).sell_setup_stop_active = TRUE
    /\ At(d, i).sell_setup_stop_active = FALSE
    /\ ~isna(At(d, i - 1).sell_setup_stop)

buy_stop_reactivated(d, i) ==
    /\ At(d, i - 1).buy_setup_stop_active = FALSE
    /\ At(d, i).buy_setup_stop_active = TRUE
    /\ At(d, i).buy_setup # SETUP_LEN

sell_stop_reactivated(d, i) ==
    /\ At(d, i - 1).sell_setup_stop_active = FALSE
    /\ At(d, i).sell_setup_stop_active = TRUE
    /\ At(d, i).sell_setup # SETUP_LEN

buy_countdown_stop_triggered(d, i) ==
    /\ At(d, i - 1).buy_countdown_stop_active = TRUE
    /\ At(d, i).buy_countdown_stop_active = FALSE
    /\ ~isna(At(d, i - 1).buy_countdown_stop)

sell_countdown_stop_triggered(d, i) ==
    /\ At(d, i - 1).sell_countdown_stop_active = TRUE
    /\ At(d, i).sell_countdown_stop_active = FALSE
    /\ ~isna(At(d, i - 1).sell_countdown_stop)

buy_countdown_stop_reactivated(d, i) ==
    /\ At(d, i - 1).buy_countdown_stop_active = FALSE
    /\ At(d, i).buy_countdown_stop_active = TRUE
    /\ At(d, i).buy_countdown # COUNTDOWN_LEN
    /\ ~At(d, i).buy_countdown_stop_reactivated

sell_countdown_stop_reactivated(d, i) ==
    /\ At(d, i - 1).sell_countdown_stop_active = FALSE
    /\ At(d, i).sell_countdown_stop_active = TRUE
    /\ At(d, i).sell_countdown # COUNTDOWN_LEN
    /\ ~At(d, i).sell_countdown_stop_reactivated

events_step(d, i) ==
    Put(d, i, [At(d, i) EXCEPT
        !.buy_stop_triggered = IF buy_stop_triggered(d, i) THEN TRUE ELSE @,
        !.sell_stop_triggered = IF sell_stop_triggered(d, i) THEN TRUE ELSE @,
        !.buy_stop_reactivated = IF buy_stop_reactivated(d, i) THEN TRUE ELSE @,
        !.sell_stop_reactivated = IF sell_stop_reactivated(d, i) THEN TRUE ELSE @,
        !.buy_countdown_stop_triggered =
            IF buy_countdown_stop_triggered(d, i) THEN TRUE ELSE @,
        !.sell_countdown_stop_triggered =
            IF sell_countdown_stop_triggered(d, i) THEN TRUE ELSE @,
        !.buy_countdown_stop_reactivated =
            IF buy_countdown_stop_reactivated(d, i) THEN TRUE ELSE @,
        !.sell_countdown_stop_reactivated =
            IF sell_countdown_stop_reactivated(d, i) THEN TRUE ELSE @])

RECURSIVE events_loop(_, _)
events_loop(d, i) == IF i >= Len(d) THEN d ELSE events_loop(events_step(d, i), i + 1)

identify_stop_events(d) == events_loop(d, 1)

(***************************************************************************)
(* calculate_tdsequential, tail: the intermediate columns are dropped.     *)
(***************************************************************************)
Intermediate == {"close_4_periods_ago", "buy_setup_condition", "sell_setup_condition"}

drop_intermediate(d) ==
    [k \in 1..Len(d) |-> [c \in (DOMAIN d[k]) \ Intermediate |-> d[k][c]]]

\* the whole function, as one operator over the bars
calculate_tdsequential(bars) ==
    drop_intermediate(
      identify_stop_events(
        calculate_countdown_phases(
          identify_perfect_setups(
            forward_fill_levels(
              calculate_tdst_and_stop_levels(
                calculate_setup_phases(
                  preprocess_dataframe(bars))))))))

(***************************************************************************)
(* The input: a series of OHLC bars (low <= close <= high), as the data    *)
(* provider delivers it.  A series is a few legs one after the other; a    *)
(* leg is n bars whose close moves by step from bar to bar.  The wicks     *)
(* (high - close, close - low) of a series are one pair for the bars of    *)
(* even index and one pair for the bars of odd index.                      *)
(***************************************************************************)
MaxLegs == 3
StartPrice == 100

Bar(h, l, c) == [high |-> h, low |-> l, close |-> c]

Leg(n, step) == [n |-> n, step |-> step]

\* the bars a first setup takes, and a close move no 4-bar drift undoes
Trend == SETUP_LOOKBACK + SETUP_LEN
Jump == SETUP_LOOKBACK + 1

Legs ==
    { Leg(Trend, -1), Leg(Trend, 1), Leg(SETUP_LEN, -1), Leg(SETUP_LEN, 1),
      Leg(1, -1), Leg(1, 1), Leg(SETUP_LOOKBACK, 0), Leg(1, Jump), Leg(1, -Jump) }

\* <<up, down>> of the even bars, <<up, down>> of the odd bars
Wicks ==
    { <<<<0, 0>>, <<0, 0>>>>, <<<<1, 1>>, <<1, 1>>>>, <<<<0, 1>>, <<0, 1>>>>,
      <<<<1, 0>>, <<1, 0>>>>, <<<<1, 1>>, <<0, 0>>>>, <<<<0, 0>>, <<1, 1>>>> }

next_bar(bars, c, w) ==
    LET wk == w[(Len(bars) % 2) + 1]
    IN  Bar(c + wk[1], c - wk[2], c)

RECURSIVE leg_bars(_, _, _, _)
leg_bars(bars, c, leg, w) ==
    IF leg.n = 0 THEN bars
    ELSE leg_bars(Append(bars, next_bar(bars, c + leg.step, w)),
                  c + leg.step, Leg(leg.n - 1, leg.step), w)

last_close(bars) == IF bars = <<>> THEN StartPrice ELSE bars[Len(bars)].close

RECURSIVE series_of(_, _, _, _)
series_of(bars, legs, k, w) ==
    IF k > Len(legs) THEN bars
    ELSE series_of(leg_bars(bars, last_close(bars), legs[k], w), legs, k + 1, w)

LegLists == UNION { [1..k -> Legs] : k \in 1..MaxLegs }

Series == { series_of(<<>>, legs, 1, w) : legs \in LegLists, w \in Wicks }

(***************************************************************************)
(* calculate_tdsequential as a program: pc is the statement to run next,   *)
(* "raised" after the ValueError of _preprocess_dataframe.                 *)
(***************************************************************************)
\* a frame of the four price columns, lower case, its rows numbered in order
Frame(bars) ==
    [ columns |-> required_cols, index |-> [k \in 1..Len(bars) |-> k] ]

Init ==
    /\ df \in Series
    /\ input = Frame(df)
    /\ pc = "preprocess"
    /\ User = {} /\ StockAsset = {}

Preprocess ==
    /\ pc = "preprocess"
    /\ IF missing_cols(input.columns) # {}
       THEN df' = df /\ pc' = "raised"
       ELSE df' = preprocess_dataframe(df) /\ pc' = "setup_phases"
    /\ UNCHANGED <<input, User, StockAsset>>

SetupPhases ==
    /\ pc = "setup_phases"
    /\ df' = calculate_setup_phases(df)
    /\ pc' = "tdst_and_stop_levels"
    /\ UNCHANGED <<input, User, StockAsset>>

TdstAndStopLevels ==
    /\ pc = "tdst_and_stop_levels"
    /\ df' = calculate_tdst_and_stop_levels(df)
    /\ pc' = "forward_fill"
    /\ UNCHANGED <<input, User, StockAsset>>

ForwardFill ==
    /\ pc = "forward_fill"
    /\ df' = forward_fill_levels(df)
    /\ pc' = "perfect_setups"
    /\ UNCHANGED <<input, User, StockAsset>>

PerfectSetups ==
    /\ pc = "perfect_setups"
    /\ df' = identify_perfect_setups(df)
    /\ pc' = "countdown_phases"
    /\ UNCHANGED <<input, User, StockAsset>>

CountdownPhases ==
    /\ pc = "countdown_phases"
    /\ df' = calculate_countdown_phases(df)
    /\ pc' = "stop_events"
    /\ UNCHANGED <<input, User, StockAsset>>

StopEvents ==
    /\ pc = "stop_events"
    /\ df' = identify_stop_events(df)
    /\ pc' = "cleanup"
    /\ UNCHANGED <<input, User, StockAsset>>

Cleanup ==
    /\ pc = "cleanup"
    /\ df' = drop_intermediate(df)
    /\ pc' = "done"
    /\ UNCHANGED <<input, User, StockAsset>>

Next ==
    \/ Preprocess
    \/ SetupPhases
    \/ TdstAndStopLevels
    \/ ForwardFill
    \/ PerfectSetups
    \/ CountdownPhases
    \/ StopEvents
    \/ Cleanup

Spec == Init /\ [][Next]_vars

(***************************************************************************)
(* A second family of inputs, for the countdown: a first setup followed by *)
(* up to MaxPhases phases of closes, falling as written and rising when    *)
(* mirrored about StartPrice.                                              *)
(***************************************************************************)
MaxPhases == 4

Steps(n, step) == [k \in 1..n |-> step]

TrendPhase == Steps(Trend, -1)
HoldPhase == Steps(COUNTDOWN_LEN - 1, 0)
RestPhase == Steps(SETUP_LOOKBACK, 0)
RallyPhase == <<Jump>> \o Steps(SETUP_LOOKBACK - 1, 0)
\* nine closes each below the close four bars back, the last not below the sixth
SlowPhase == <<-1, 0, 0, 0, -1, -1, 0, 0, 0>>
DipPhase == <<-1>>

Phases == {TrendPhase, HoldPhase, RestPhase, RallyPhase, SlowPhase, DipPhase}

CountdownWicks ==
    { <<<<0, 0>>, <<0, 0>>>>, <<<<1, 0>>, <<1, 0>>>>, <<<<1, 0>>, <<0, 0>>>> }

RECURSIVE phase_bars(_, _, _, _, _)
phase_bars(bars, c, steps, k, w) ==
    IF k > Len(steps) THEN bars
    ELSE phase_bars(Append(bars, next_bar(bars, c + steps[k], w)),
                    c + steps[k], steps, k + 1, w)

RECURSIVE phases_series(_, _, _, _)
phases_series(bars, phases, k, w) ==
    IF k > Len(phases) THEN bars
    ELSE phases_series(phase_bars(bars, last_close(bars), phases[k], 1, w),
                       phases, k + 1, w)

Mirror(bars) ==
    [k \in DOMAIN bars |-> Bar(2 * StartPrice - bars[k].low,
                               2 * StartPrice - bars[k].high,
                               2 * StartPrice - bars[k].close)]

PhaseLists == UNION { [1..k -> Phases] : k \in 0..MaxPhases }

FallingSeries ==
    { phases_series(<<>>, <<TrendPhase>> \o phases, 1, w) :
          phases \in PhaseLists, w \in CountdownWicks }

CountdownSeries == FallingSeries \cup { Mirror(bars) : bars \in FallingSeries }

InitCountdown ==
    /\ df \in CountdownSeries
    /\ input = Frame(df)
    /\ pc = "preprocess"
    /\ User = {} /\ StockAsset = {}

SpecCountdown == InitCountdown /\ [][Next]_vars

(***************************************************************************)
(* A third family, of unvalidated input: the engine reads the columns as   *)
(* they come, so a feed that records every low above the close is a        *)
(* series it can be given, next to one with a lower shadow on every bar.   *)
(* A first setup and up to MaxRawPhases phases.                            *)
(***************************************************************************)
MaxRawPhases == 2

\* how far above the close the low is recorded: past a rally's jump
Misprint == Jump + 1

\* no shadows, a lower shadow on every bar, every low misprinted
RawWicks ==
    { <<<<0, 0>>, <<0, 0>>>>, <<<<0, 1>>, <<0, 1>>>>,
      <<<<0, -Misprint>>, <<0, -Misprint>>>> }

RawPhaseLists == UNION { [1..k -> Phases] : k \in 0..MaxRawPhases }

RawFallingSeries ==
    { phases_series(<<>>, <<TrendPhase>> \o phases, 1, w) :
          phases \in RawPhaseLists, w \in RawWicks }

RawSeries == RawFallingSeries \cup { Mirror(bars) : bars \in RawFallingSeries }

InitRaw ==
    /\ df \in RawSeries
    /\ input = Frame(df)
    /\ pc = "preprocess"
    /\ User = {} /\ StockAsset = {}

SpecRaw == InitRaw /\ [][Next]_vars

(***************************************************************************)
(* A fourth family of inputs, for the validation: every series of up to    *)
(* MaxBars bars without wicks whose close moves by at most one tick a bar, *)
(* the series of no bars included, in a frame whose price columns are      *)
(* spelled in lower case, capitalised or in upper case, with at most one   *)
(* of them missing and with or without further columns, and whose index    *)
(* ascends or has its last two timestamps out of order.                    *)
(***************************************************************************)
MaxBars == 5

Moves == {-1, 0, 1}

RECURSIVE moves_bars(_, _, _)
moves_bars(bars, moves, k) ==
    IF k > Len(moves) THEN bars
    ELSE LET c == last_close(bars) + moves[k]
         IN  moves_bars(Append(bars, Bar(c, c, c)), moves, k + 1)

ShortSeries == { moves_bars(<<>>, moves, 1) : moves \in UNION { [1..n -> Moves] : n \in 0..MaxBars } }

Ascending(n) == [k \in 1..n |-> k]
LastTwoSwapped(n) == [k \in 1..n |-> IF k = n THEN n - 1 ELSE IF k = n - 1 THEN n ELSE k]
Indexes(n) ==
    IF n < 2 THEN {Ascending(n)} ELSE {Ascending(n), LastTwoSwapped(n)}

Spellings ==
    { [open |-> "open", high |-> "high", low |-> "low", close |-> "close"],
      [open |-> "Open", high |-> "High", low |-> "Low", close |-> "Close"],
      [open |-> "OPEN", high |-> "HIGH", low |-> "LOW", close |-> "CLOSE"] }

Supplied == {required_cols} \cup { required_cols \ {col} : col \in required_cols }

FurtherColumns == { {}, {"Volume"}, {"Date", "Volume"} }

ColumnSets ==
    { {sp[col] : col \in cols} \cup more :
          sp \in Spellings, cols \in Supplied, more \in FurtherColumns }

InitInput ==
    /\ df \in ShortSeries
    /\ input \in [columns : ColumnSets, index : Indexes(Len(df))]
    /\ pc = "preprocess"
    /\ User = {} /\ StockAsset = {}

SpecInput == InitInput /\ [][Next]_vars

(***************************************************************************)
(* apply_simple_strategy, the position holding: every strategy type        *)
(* leaves a Raw_Signal of -1, 0 or 1 on each row, and the loop that        *)
(* follows turns it into Signal and Position.  The statements after the    *)
(* loop read Position and write the return and equity columns only.  df    *)
(* is the copy the function works on, its rows the three columns.          *)
(***************************************************************************)
MaxSignals == 6

RawSignals == UNION { [1..n -> {-1, 0, 1}] : n \in 0..MaxSignals }

SignalFrame(raw) == [k \in 1..Len(raw) |-> [Raw_Signal |-> raw[k]]]

position_columns(d) ==
    [k \in DOMAIN d |-> [Raw_Signal |-> d[k].Raw_Signal, Signal |-> 0, Position |-> 0]]

position_init(d) == [df |-> d, current_position |-> -1]

\* as position_step, every raw signal passed on as a Signal
position_step_signal_unheld(s, i) ==
    LET raw_signal == At(s.df, i).Raw_Signal
        s1 == IF \/ raw_signal = 1 /\ s.current_position = -1
                 \/ raw_signal = -1 /\ s.current_position = 1
              THEN [s EXCEPT !.current_position = raw_signal]
              ELSE s
    IN  [s1 EXCEPT !.df = Put(s1.df, i, [At(s1.df, i) EXCEPT
                              !.Signal = raw_signal,
                              !.Position = s1.current_position])]

position_step(s, i) ==
    LET raw_signal == At(s.df, i).Raw_Signal
        s1 == IF \/ raw_signal = 1 /\ s.current_position = -1
                 \/ raw_signal = -1 /\ s.current_position = 1
              THEN [s EXCEPT !.current_position = raw_signal,
                             !.df = Put(s.df, i, [At(s.df, i) EXCEPT !.Signal = raw_signal])]
              ELSE s
    IN  [s1 EXCEPT !.df = Put(s1.df, i, [At(s1.df, i) EXCEPT
                              !.Position = s1.current_position])]

RECURSIVE position_loop(_, _)
position_loop(s, i) ==
    IF i >= Len(s.df) THEN s ELSE position_loop(position_step(s, i), i + 1)

hold_positions(d) == position_loop(position_init(d), 0).df

InitStrategy ==
    /\ df \in { SignalFrame(raw) : raw \in RawSignals }
    /\ input = Frame(df)
    /\ pc = "position_columns"
    /\ User = {} /\ StockAsset = {}

PositionColumns ==
    /\ pc = "position_columns"
    /\ df' = position_columns(df)
    /\ pc' = "position_loop"
    /\ UNCHANGED <<input, User, StockAsset>>

HoldPositions ==
    /\ pc = "position_loop"
    /\ df' = hold_positions(df)
    /\ pc' = "returns"
    /\ UNCHANGED <<input, User, StockAsset>>

NextStrategy ==
    \/ PositionColumns
    \/ HoldPositions

SpecStrategy == InitStrategy /\ [][NextStrategy]_vars

(***************************************************************************)
(* The portfolio forms of portfolio_management.py over the two tables of   *)
(* models.py.  A form submission is one run of the page script: the run    *)
(* reads the users, takes the selection from the rows it read and executes *)
(* the handler of the one button that was pressed.  A table is the set of  *)
(* its rows.  The database enforces no foreign key (models.py opens it     *)
(* without the pragma), so the rows are whatever the handlers write.       *)
(***************************************************************************)
MaxUsers == 3
MaxAssets == 2

\* what the text inputs of the forms can hold: nothing, or a value
NickNames == {"", "ali", "veli"}
RealNames == {"", "Ali Polat"}
AssetCodes == {"", "THYAO"}
AssetNames == {"", "Turk Hava Yollari"}
status_options == {"Position", "Cash"}

\* AutoField: an INTEGER PRIMARY KEY, the largest key in the table plus one
auto_id(keys) == IF keys = {} THEN 1 ELSE (CHOOSE k \in keys : \A j \in keys : j <= k) + 1

user_ids == {u.user_id : u \in User}
asset_ids == {a.stock_asset_id : a \in StockAsset}

\* StockAsset.select().where(StockAsset.user == selected_user)
assets_of(user_id) == {a \in StockAsset : a.user_id = user_id}

\* as assets_count, counting no row
assets_count_unchecked(user_id) == 0

assets_count(user_id) == Cardinality(assets_of(user_id))

InitPortfolio ==
    /\ User = {}
    /\ StockAsset = {}
    /\ df = <<>>
    /\ input = Frame(df)
    /\ pc = "forms"

AddUser ==
    /\ pc = "forms"
    /\ auto_id(user_ids) <= MaxUsers
    /\ \E nick_name \in NickNames, real_name \in RealNames :
          IF nick_name # "" /\ real_name # ""
          THEN User' = User \cup {[user_id |-> auto_id(user_ids),
                                   nick_name |-> nick_name, real_name |-> real_name]}
          ELSE User' = User
    /\ UNCHANGED <<StockAsset, df, pc, input>>

UpdateUser ==
    /\ pc = "forms"
    /\ \E selected_user \in User, e_nick_name \in NickNames, e_real_name \in RealNames :
          IF e_nick_name # "" /\ e_real_name # ""
          THEN User' = (User \ {selected_user}) \cup
                           {[selected_user EXCEPT !.nick_name = e_nick_name,
                                                  !.real_name = e_real_name]}
          ELSE User' = User
    /\ UNCHANGED <<StockAsset, df, pc, input>>

DeleteUser ==
    /\ pc = "forms"
    /\ \E selected_user \in User :
          IF assets_count(selected_user.user_id) > 0
          THEN User' = User
          ELSE User' = User \ {selected_user}
    /\ UNCHANGED <<StockAsset, df, pc, input>>

AddAsset ==
    /\ pc = "forms"
    /\ User # {}
    /\ auto_id(asset_ids) <= MaxAssets
    /\ \E selected_user_id \in user_ids, stock_code \in AssetCodes, stock_name \in AssetNames,
          sell_date_value \in BOOLEAN, sell_price_value \in BOOLEAN, status \in status_options :
          IF stock_code # "" /\ stock_name # ""
          THEN StockAsset' = StockAsset \cup
                   {[stock_asset_id |-> auto_id(asset_ids),
                     user_id |-> selected_user_id,
                     stock_asset_code |-> stock_code,
                     sell_date |-> sell_date_value,
                     sell_price |-> sell_price_value,
                     status |-> IF sell_date_value /\ sell_price_value THEN "Cash" ELSE status]}
          ELSE StockAsset' = StockAsset
    /\ UNCHANGED <<User, df, pc, input>>

update_status(e_sell_date_value, e_sell_price_value, e_status) ==
    IF e_sell_date_value /\ e_sell_price_value /\ e_status = "Position" THEN "Cash"
    ELSE IF ~e_sell_date_value /\ ~e_sell_price_value /\ e_status = "Cash" THEN "Position"
    ELSE e_status

UpdateAsset ==
    /\ pc = "forms"
    /\ User # {}
    /\ \E selected_user_id \in user_ids :
       \E selected_asset \in assets_of(selected_user_id) :
       \E e_stock_code \in AssetCodes, e_stock_name \in AssetNames,
          e_sell_date_value \in BOOLEAN, e_sell_price_value \in BOOLEAN,
          e_status \in status_options :
          IF e_stock_code # "" /\ e_stock_name # ""
          THEN StockAsset' = (StockAsset \ {selected_asset}) \cup
                   {[selected_asset EXCEPT
                         !.stock_asset_code = e_stock_code,
                         !.sell_date = e_sell_date_value,
                         !.sell_price = e_sell_price_value,
                         !.status = update_status(e_sell_date_value, e_sell_price_value,
                                                  e_status)]}
          ELSE StockAsset' = StockAsset
    /\ UNCHANGED <<User, df, pc, input>>

DeleteAsset ==
    /\ pc = "forms"
    /\ User # {}
    /\ \E selected_user_id \in user_ids :
       \E selected_asset \in assets_of(selected_user_id) :
          StockAsset' = StockAsset \ {selected_asset}
    /\ UNCHANGED <<User, df, pc, input>>

NextPortfolio ==
    \/ AddUser
    \/ UpdateUser
    \/ DeleteUser
    \/ AddAsset
    \/ UpdateAsset
    \/ DeleteAsset

SpecPortfolio == InitPortfolio /\ [][NextPortfolio]_vars

(***************************************************************************)
(* The output rows, for the properties below.                              *)
(***************************************************************************)
Done == pc = "done"
Rows == 0..(Len(df) - 1)
Row(i) == df[i + 1]

BuySetupDone(i) == Row(i).buy_setup = 9
SellSetupDone(i) == Row(i).sell_setup = 9
NoBuySetupDone(a, b) == \A k \in a..b : ~BuySetupDone(k)
NoSellSetupDone(a, b) == \A k \in a..b : ~SellSetupDone(k)

Present(x) == x # NaN
SetupWindow(i) == (i - 8)..i

HighestHigh(i) == CHOOSE v \in {Row(k).high : k \in SetupWindow(i)} :
                      \A k \in SetupWindow(i) : Row(k).high <= v
LowestLow(i) == CHOOSE v \in {Row(k).low : k \in SetupWindow(i)} :
                    \A k \in SetupWindow(i) : v <= Row(k).low

\* the earliest bar of the window that made the extreme
LowBar(i) == CHOOSE b \in SetupWindow(i) :
                 /\ Row(b).low = LowestLow(i)
                 /\ \A k \in SetupWindow(i) : k < b => Row(k).low # LowestLow(i)
HighBar(i) == CHOOSE b \in SetupWindow(i) :
                  /\ Row(b).high = HighestHigh(i)
                  /\ \A k \in SetupWindow(i) : k < b => Row(k).high # HighestHigh(i)

BuyStopOf(i) == LowestLow(i) - (Row(LowBar(i)).high - Row(LowBar(i)).low)
SellStopOf(i) == HighestHigh(i) + (Row(HighBar(i)).high - Row(HighBar(i)).low)

(***************************************************************************)
(* C1: from bar 4 on, a bar whose close is below the close four bars back  *)
(* continues a buy run of 1..8 by one and restarts a run of 0 or 9 at 1,   *)
(* and any other bar sets the buy count to 0; the sell count follows the   *)
(* same rule with the close above the close four bars back.                *)
(***************************************************************************)
C1_SetupCount ==
    Done => \A i \in Rows : i >= 4 =>
        /\ (Row(i).close < Row(i - 4).close /\ Row(i - 1).buy_setup \in 1..8)
               => Row(i).buy_setup = Row(i - 1).buy_setup + 1
        /\ (Row(i).close < Row(i - 4).close /\ Row(i - 1).buy_setup \in {0, 9})
               => Row(i).buy_setup = 1
        /\ Row(i).close >= Row(i - 4).close => Row(i).buy_setup = 0
        /\ (Row(i).close > Row(i - 4).close /\ Row(i - 1).sell_setup \in 1..8)
               => Row(i).sell_setup = Row(i - 1).sell_setup + 1
        /\ (Row(i).close > Row(i - 4).close /\ Row(i - 1).sell_setup \in {0, 9})
               => Row(i).sell_setup = 1
        /\ Row(i).close <= Row(i - 4).close => Row(i).sell_setup = 0

\* a buy run restarted after its ninth bar, and a sell run broken by an equal close
C1_Witness ==
    /\ Done
    /\ \E i \in Rows : i >= 5 /\ Row(i - 1).buy_setup = 9 /\ Row(i).buy_setup = 1
    /\ \E i \in Rows : /\ i >= 5
                       /\ Row(i - 1).sell_setup \in 1..8
                       /\ Row(i).close = Row(i - 4).close
                       /\ Row(i).sell_setup = 0

(***************************************************************************)
(* C2: after a buy setup completes at bar s with level L, each later bar   *)
(* up to the next buy completion reports the level active at L while no    *)
(* bar after s has closed above L, and inactive from the first bar that    *)
(* closes above L on; the sell level likewise with a close below L.        *)
(***************************************************************************)
C2_TdstForwardFill ==
    Done => \A s \in Rows : \A t \in Rows : t > s =>
        /\ (BuySetupDone(s) /\ NoBuySetupDone(s + 1, t)) =>
               IF \E k \in (s + 1)..t : Row(k).close > Row(s).buy_tdst_level
               THEN ~Row(t).buy_tdst_active
               ELSE Row(t).buy_tdst_active /\ Row(t).buy_tdst_level = Row(s).buy_tdst_level
        /\ (SellSetupDone(s) /\ NoSellSetupDone(s + 1, t)) =>
               IF \E k \in (s + 1)..t : Row(k).close < Row(s).sell_tdst_level
               THEN ~Row(t).sell_tdst_active
               ELSE Row(t).sell_tdst_active /\ Row(t).sell_tdst_level = Row(s).sell_tdst_level

\* a buy level carried over a bar that closes at it, cancelled later, inactive after
C2_Witness ==
    /\ Done
    /\ \E s \in Rows : \E t \in Rows :
          /\ BuySetupDone(s) /\ t > s + 1 /\ t + 1 \in Rows
          /\ NoBuySetupDone(s + 1, t + 1)
          /\ \E k \in (s + 1)..(t - 1) : Row(k).close = Row(s).buy_tdst_level
          /\ Row(t - 1).buy_tdst_active
          /\ Row(t).close > Row(s).buy_tdst_level
          /\ ~Row(t).buy_tdst_active
          /\ Row(t + 1).close <= Row(s).buy_tdst_level
          /\ ~Row(t + 1).buy_tdst_active

(***************************************************************************)
(* C3: a buy level present at bar i is the highest high of the nine bars   *)
(* of the latest buy setup completed at or before i, a sell level the      *)
(* lowest low of those of the latest sell setup; on the completion bar     *)
(* the new level is present and active.                                    *)
(***************************************************************************)
C3_TdstLevelValue ==
    Done => \A i \in Rows :
        /\ Present(Row(i).buy_tdst_level) =>
               \E j \in 0..i : /\ BuySetupDone(j) /\ NoBuySetupDone(j + 1, i)
                               /\ Row(i).buy_tdst_level = HighestHigh(j)
        /\ Present(Row(i).sell_tdst_level) =>
               \E j \in 0..i : /\ SellSetupDone(j) /\ NoSellSetupDone(j + 1, i)
                               /\ Row(i).sell_tdst_level = LowestLow(j)
        /\ BuySetupDone(i) => Present(Row(i).buy_tdst_level) /\ Row(i).buy_tdst_active
        /\ SellSetupDone(i) => Present(Row(i).sell_tdst_level) /\ Row(i).sell_tdst_active

\* a second buy setup completes while the level of the first is still active
C3_Witness ==
    /\ Done
    /\ \E j \in Rows : /\ j >= 1 /\ BuySetupDone(j)
                       /\ Row(j - 1).buy_tdst_active
                       /\ Row(j - 1).buy_tdst_level # Row(j).buy_tdst_level
                       /\ j + 1 \in Rows /\ Row(j + 1).buy_tdst_active

(***************************************************************************)
(* C4: on a buy completion bar the setup stop is the lowest low of the     *)
(* nine bars less the range of the earliest bar that made it; on a sell    *)
(* completion bar, the highest high plus the range of the earliest bar     *)
(* that made it.                                                           *)
(***************************************************************************)
C4_SetupStopValue ==
    Done => \A i \in Rows :
        /\ BuySetupDone(i) => Row(i).buy_setup_stop = BuyStopOf(i)
        /\ SellSetupDone(i) => Row(i).sell_setup_stop = SellStopOf(i)

\* two bars of the window share the lowest low and differ in range
C4_Witness ==
    /\ Done
    /\ \E i \in Rows : /\ BuySetupDone(i)
                       /\ \E b \in SetupWindow(i) :
                             /\ b # LowBar(i)
                             /\ Row(b).low = LowestLow(i)
                             /\ Row(b).high - Row(b).low
                                    # Row(LowBar(i)).high - Row(LowBar(i)).low

BuyStopTriggers(t) ==
    \/ BuySetupDone(t) /\ Row(t).low <= BuyStopOf(t)
    \/ /\ t >= 1 /\ ~BuySetupDone(t)
       /\ Row(t - 1).buy_setup_stop_active
       /\ Row(t).low <= Row(t - 1).buy_setup_stop
SellStopTriggers(t) ==
    \/ SellSetupDone(t) /\ Row(t).high >= SellStopOf(t)
    \/ /\ t >= 1 /\ ~SellSetupDone(t)
       /\ Row(t - 1).sell_setup_stop_active
       /\ Row(t).high >= Row(t - 1).sell_setup_stop
BuyStopAt(t) == IF BuySetupDone(t) THEN BuyStopOf(t) ELSE Row(t - 1).buy_setup_stop
SellStopAt(t) == IF SellSetupDone(t) THEN SellStopOf(t) ELSE Row(t - 1).sell_setup_stop

(***************************************************************************)
(* C5: with the buy setup stop active at price P on bar t-1 and no buy     *)
(* setup completing on bar t, a low at or below P makes bar t report the   *)
(* stop inactive and triggered, and a low above P makes it report the      *)
(* stop active at P and not triggered; the sell stop likewise with a high  *)
(* at or above P.                                                          *)
(***************************************************************************)
C5_SetupStopTrigger ==
    Done => \A t \in Rows : t >= 1 =>
        /\ (Row(t - 1).buy_setup_stop_active /\ ~BuySetupDone(t)) =>
               IF Row(t).low <= Row(t - 1).buy_setup_stop
               THEN ~Row(t).buy_setup_stop_active /\ Row(t).buy_stop_triggered
               ELSE /\ Row(t).buy_setup_stop_active
                    /\ Row(t).buy_setup_stop = Row(t - 1).buy_setup_stop
                    /\ ~Row(t).buy_stop_triggered
        /\ (Row(t - 1).sell_setup_stop_active /\ ~SellSetupDone(t)) =>
               IF Row(t).high >= Row(t - 1).sell_setup_stop
               THEN ~Row(t).sell_setup_stop_active /\ Row(t).sell_stop_triggered
               ELSE /\ Row(t).sell_setup_stop_active
                    /\ Row(t).sell_setup_stop = Row(t - 1).sell_setup_stop
                    /\ ~Row(t).sell_stop_triggered

\* a buy stop carried over a bar above it and triggered by a low equal to it
C5_Witness ==
    /\ Done
    /\ \E t \in Rows :
          /\ t >= 2
          /\ Row(t - 2).buy_setup_stop_active
          /\ ~BuySetupDone(t - 1) /\ ~BuySetupDone(t)
          /\ Row(t - 1).low > Row(t - 2).buy_setup_stop
          /\ Row(t - 1).buy_setup_stop_active
          /\ Row(t).low = Row(t - 1).buy_setup_stop
          /\ Row(t).buy_stop_triggered

(***************************************************************************)
(* C6: after the buy setup stop triggers at bar t with price P, and with   *)
(* no buy setup completing after t, the stop is inactive and not marked    *)
(* reactivated on every bar before the first bar r whose low is above P;   *)
(* bar r reports the stop active at P and reactivated, and bar r+1 is not  *)
(* marked reactivated.  The sell stop likewise with a high below P.        *)
(***************************************************************************)
C6_SetupStopReactivation ==
    Done => \A t \in Rows : \A r \in Rows : r > t =>
        /\ ( /\ BuyStopTriggers(t) /\ NoBuySetupDone(t + 1, r)
             /\ \A k \in (t + 1)..(r - 1) : Row(k).low <= BuyStopAt(t)
             /\ Row(r).low > BuyStopAt(t) ) =>
               /\ \A k \in t..(r - 1) : /\ ~Row(k).buy_setup_stop_active
                                        /\ ~Row(k).buy_stop_reactivated
               /\ Row(r).buy_setup_stop_active
               /\ Row(r).buy_setup_stop = BuyStopAt(t)
               /\ Row(r).buy_stop_reactivated
               /\ r + 1 \in Rows => ~Row(r + 1).buy_stop_reactivated
        /\ ( /\ SellStopTriggers(t) /\ NoSellSetupDone(t + 1, r)
             /\ \A k \in (t + 1)..(r - 1) : Row(k).high >= SellStopAt(t)
             /\ Row(r).high < SellStopAt(t) ) =>
               /\ \A k \in t..(r - 1) : /\ ~Row(k).sell_setup_stop_active
                                        /\ ~Row(k).sell_stop_reactivated
               /\ Row(r).sell_setup_stop_active
               /\ Row(r).sell_setup_stop = SellStopAt(t)
               /\ Row(r).sell_stop_reactivated
               /\ r + 1 \in Rows => ~Row(r + 1).sell_stop_reactivated

\* a triggered buy stop stays inactive over a bar whose low equals it, then reactivates
C6_Witness ==
    /\ Done
    /\ \E t \in Rows : \E r \in Rows :
          /\ r > t + 1 /\ r + 1 \in Rows
          /\ BuyStopTriggers(t) /\ ~BuySetupDone(t)
          /\ NoBuySetupDone(t + 1, r + 1)
          /\ \A k \in (t + 1)..(r - 1) : Row(k).low <= BuyStopAt(t)
          /\ \E k \in (t + 1)..(r - 1) : Row(k).low = BuyStopAt(t)
          /\ Row(r).low > BuyStopAt(t)
          /\ Row(r).buy_stop_reactivated
          /\ Row(r + 1).buy_setup_stop_active

(***************************************************************************)
(* C7: on every bar where a setup reaches 9 or a countdown reaches 13, the *)
(* stop of that phase and direction is reported active on that bar.        *)
(***************************************************************************)
C7_StopActiveOnCompletion ==
    Done => \A i \in Rows :
        /\ BuySetupDone(i) => Row(i).buy_setup_stop_active
        /\ SellSetupDone(i) => Row(i).sell_setup_stop_active
        /\ Row(i).buy_countdown = COUNTDOWN_LEN => Row(i).buy_countdown_stop_active
        /\ Row(i).sell_countdown = COUNTDOWN_LEN => Row(i).sell_countdown_stop_active

(***************************************************************************)
(* C8: a buy setup stop present at bar t is the stop of the latest buy     *)
(* setup completed at or before t, so the price of an earlier stop that    *)
(* was triggered is not reported again after a new completion; the same    *)
(* for the sell setup stop.                                                *)
(***************************************************************************)
C8_SetupStopIsLatest ==
    Done => \A t \in Rows :
        /\ Present(Row(t).buy_setup_stop) =>
               \E j \in 0..t : /\ BuySetupDone(j) /\ NoBuySetupDone(j + 1, t)
                               /\ Row(t).buy_setup_stop = BuyStopOf(j)
        /\ Present(Row(t).sell_setup_stop) =>
               \E j \in 0..t : /\ SellSetupDone(j) /\ NoSellSetupDone(j + 1, t)
                               /\ Row(t).sell_setup_stop = SellStopOf(j)

\* a buy setup completes while an earlier buy stop is triggered, and a later bar
\* whose low is above the earlier price reports the new stop
C8_Witness ==
    /\ Done
    /\ \E a \in Rows : \E j \in Rows : \E t \in Rows :
          /\ a < j /\ j < t
          /\ BuySetupDone(a) /\ BuySetupDone(j) /\ NoBuySetupDone(a + 1, j - 1)
          /\ ~Row(j - 1).buy_setup_stop_active
          /\ NoBuySetupDone(j + 1, t)
          /\ BuyStopOf(a) # BuyStopOf(j)
          /\ Row(t).low > BuyStopOf(a)
          /\ Row(t).buy_setup_stop = BuyStopOf(j)

C10_CountdownExclusive ==
    Done => \A i \in Rows :
        ~(Row(i).buy_countdown_active = 1 /\ Row(i).sell_countdown_active = 1)

\* a sell setup completes over a running buy countdown, which is reported
\* inactive from that bar while the sell countdown is reported active
C10_Witness ==
    /\ Done
    /\ \E i \in Rows :
          /\ i >= 1 /\ i + 1 \in Rows
          /\ SellSetupDone(i)
          /\ Row(i - 1).buy_countdown_active = 1
          /\ Row(i).sell_countdown_active = 1 /\ Row(i).buy_countdown_active = 0
          /\ Row(i + 1).sell_countdown_active = 1 /\ Row(i + 1).buy_countdown_active = 0

(***************************************************************************)
(* The countdown as the rows show it: the countdown begun by the buy setup *)
(* completed at bar j is running when bar i starts if no setup has         *)
(* completed and no close has passed the highest high of the setup since,  *)
(* and fewer than thirteen bars have qualified.                            *)
(***************************************************************************)
BuyQualifies(k) == k >= 2 /\ Row(k).close <= Row(k - 2).low
SellQualifies(k) == k >= 2 /\ Row(k).close >= Row(k - 2).high
BuyQualified(j, i) == {k \in j..i : BuyQualifies(k)}
SellQualified(j, i) == {k \in j..i : SellQualifies(k)}

BuyRunning(j, i) ==
    /\ j < i /\ BuySetupDone(j)
    /\ NoBuySetupDone(j + 1, i - 1) /\ NoSellSetupDone(j + 1, i - 1)
    /\ \A k \in (j + 1)..(i - 1) : Row(k).close <= HighestHigh(j)
    /\ Cardinality(BuyQualified(j, i - 1)) < COUNTDOWN_LEN
SellRunning(j, i) ==
    /\ j < i /\ SellSetupDone(j)
    /\ NoBuySetupDone(j + 1, i - 1) /\ NoSellSetupDone(j + 1, i - 1)
    /\ \A k \in (j + 1)..(i - 1) : Row(k).close >= LowestLow(j)
    /\ Cardinality(SellQualified(j, i - 1)) < COUNTDOWN_LEN

NoSetupDone(i) == ~BuySetupDone(i) /\ ~SellSetupDone(i)

(***************************************************************************)
(* C11: a buy setup completing at bar i over a running buy countdown that  *)
(* has counted, with a low not below the low of the bar that began the     *)
(* countdown and without being perfected, leaves the countdown going: bar  *)
(* i reports the number of bars qualified since the countdown began.  The  *)
(* sell countdown likewise, on highs.                                      *)
(***************************************************************************)
C11_NoRecycleUnlessAggressive ==
    Done => \A j \in Rows : \A i \in Rows :
        /\ ( /\ BuyRunning(j, i) /\ BuySetupDone(i)
             /\ Cardinality(BuyQualified(j, i - 1)) >= 1
             /\ Row(i).low >= Row(j).low
             /\ Row(i).perfect_buy_9 = 0
             /\ Row(i).close <= HighestHigh(j) ) =>
               Row(i).buy_countdown = Cardinality(BuyQualified(j, i))
        /\ ( /\ SellRunning(j, i) /\ SellSetupDone(i)
             /\ Cardinality(SellQualified(j, i - 1)) >= 1
             /\ Row(i).high <= Row(j).high
             /\ Row(i).perfect_sell_9 = 0
             /\ Row(i).close >= LowestLow(j) ) =>
               Row(i).sell_countdown = Cardinality(SellQualified(j, i))

(***************************************************************************)
(* C12: a bar of a running buy countdown that closes above the highest     *)
(* high of the setup that began it reports a buy count of 0, whether or    *)
(* not it closes at or below the low two bars back, and every later bar    *)
(* before the next buy setup completion reports 0 too; the sell countdown  *)
(* likewise with a close below the lowest low of its setup.                *)
(***************************************************************************)
C12_CancelPreemptsQualification ==
    Done => \A j \in Rows : \A i \in Rows :
        /\ (BuyRunning(j, i) /\ NoSetupDone(i) /\ Row(i).close > HighestHigh(j)) =>
               /\ Row(i).buy_countdown = 0
               /\ \A t \in Rows : (t > i /\ NoBuySetupDone(i + 1, t))
                                      => Row(t).buy_countdown = 0
        /\ (SellRunning(j, i) /\ NoSetupDone(i) /\ Row(i).close < LowestLow(j)) =>
               /\ Row(i).sell_countdown = 0
               /\ \A t \in Rows : (t > i /\ NoSellSetupDone(i + 1, t))
                                      => Row(t).sell_countdown = 0

\* a countdown that has counted is cancelled on a bar that also qualifies, and
\* a later qualifying bar is not counted
C12_Witness ==
    /\ Done
    /\ \E j \in Rows : \E i \in Rows : \E t \in Rows :
          /\ BuyRunning(j, i) /\ NoSetupDone(i)
          /\ Cardinality(BuyQualified(j, i - 1)) >= 1
          /\ Row(i).close > HighestHigh(j)
          /\ BuyQualifies(i)
          /\ t > i /\ NoBuySetupDone(i + 1, t)
          /\ BuyQualifies(t)
          /\ Row(t).buy_countdown = 0

(***************************************************************************)
(* C13: on a bar of a running buy countdown where no setup completes and   *)
(* the close has not passed the highest high of the setup that began it,   *)
(* the buy count is the previous bar's count plus one when the close is    *)
(* at or below the low two bars back, and the previous bar's count kept    *)
(* otherwise: the number of bars qualified so far.  The sell countdown     *)
(* likewise, with a close at or above the high two bars back.              *)
(***************************************************************************)
C13_CountdownQualification ==
    Done => \A j \in Rows : \A i \in Rows :
        /\ (BuyRunning(j, i) /\ NoSetupDone(i) /\ Row(i).close <= HighestHigh(j)) =>
               /\ Row(i).buy_countdown =
                      Row(i - 1).buy_countdown + (IF BuyQualifies(i) THEN 1 ELSE 0)
               /\ Row(i).buy_countdown = Cardinality(BuyQualified(j, i))
        /\ (SellRunning(j, i) /\ NoSetupDone(i) /\ Row(i).close >= LowestLow(j)) =>
               /\ Row(i).sell_countdown =
                      Row(i - 1).sell_countdown + (IF SellQualifies(i) THEN 1 ELSE 0)
               /\ Row(i).sell_countdown = Cardinality(SellQualified(j, i))

\* a count held over a bar that does not qualify, then raised by one that does
C13_Witness ==
    /\ Done
    /\ \E j \in Rows : \E i \in Rows :
          /\ i + 1 \in Rows /\ i > j + 1
          /\ BuyRunning(j, i + 1)
          /\ NoSetupDone(i) /\ NoSetupDone(i + 1)
          /\ Row(i + 1).close <= HighestHigh(j)
          /\ Row(i - 1).buy_countdown >= 1
          /\ ~BuyQualifies(i) /\ Row(i).buy_countdown = Row(i - 1).buy_countdown
          /\ BuyQualifies(i + 1) /\ Row(i + 1).buy_countdown = Row(i).buy_countdown + 1

(***************************************************************************)
(* C14: on two consecutive bars that both report the buy countdown active  *)
(* the buy count of the second is not below that of the first; the same    *)
(* for the sell countdown.                                                 *)
(***************************************************************************)
C14_CountNeverDecreasesWhileActive ==
    Done => \A i \in Rows : i >= 1 =>
        /\ (Row(i - 1).buy_countdown_active = 1 /\ Row(i).buy_countdown_active = 1)
               => Row(i).buy_countdown >= Row(i - 1).buy_countdown
        /\ (Row(i - 1).sell_countdown_active = 1 /\ Row(i).sell_countdown_active = 1)
               => Row(i).sell_countdown >= Row(i - 1).sell_countdown

\* the bar on which the countdown begun at bar j counts its thirteenth bar
BuyThirteenth(j, i) ==
    /\ BuyRunning(j, i) /\ NoSetupDone(i) /\ Row(i).close <= HighestHigh(j)
    /\ BuyQualifies(i) /\ Cardinality(BuyQualified(j, i)) = COUNTDOWN_LEN
SellThirteenth(j, i) ==
    /\ SellRunning(j, i) /\ NoSetupDone(i) /\ Row(i).close >= LowestLow(j)
    /\ SellQualifies(i) /\ Cardinality(SellQualified(j, i)) = COUNTDOWN_LEN

\* the n-th of a set of bars, in order
NthBar(bars, n) == CHOOSE k \in bars : Cardinality({m \in bars : m <= k}) = n

(***************************************************************************)
(* C15: the bar that counts the thirteenth qualifying bar of a buy         *)
(* countdown reports a buy count of 13, every later bar before the next    *)
(* buy setup completion reports 0, and the bar is marked a perfect 13      *)
(* exactly when its close is at or below the low of the eighth qualifying  *)
(* bar; no bar whose buy count is not 13 is marked.  The sell countdown    *)
(* likewise, on the high of the eighth qualifying bar.                     *)
(***************************************************************************)
C15_CountdownCompletion ==
    Done =>
        /\ \A j \in Rows : \A i \in Rows :
              /\ BuyThirteenth(j, i) =>
                    /\ Row(i).buy_countdown = COUNTDOWN_LEN
                    /\ \A t \in Rows : (t > i /\ NoBuySetupDone(i + 1, t))
                                           => Row(t).buy_countdown = 0
                    /\ Row(i).perfect_buy_13 = 1
                           <=> Row(i).close <= Row(NthBar(BuyQualified(j, i), 8)).low
              /\ SellThirteenth(j, i) =>
                    /\ Row(i).sell_countdown = COUNTDOWN_LEN
                    /\ \A t \in Rows : (t > i /\ NoSellSetupDone(i + 1, t))
                                           => Row(t).sell_countdown = 0
                    /\ Row(i).perfect_sell_13 = 1
                           <=> Row(i).close >= Row(NthBar(SellQualified(j, i), 8)).high
        /\ \A i \in Rows :
              /\ Row(i).perfect_buy_13 = 1 => Row(i).buy_countdown = COUNTDOWN_LEN
              /\ Row(i).perfect_sell_13 = 1 => Row(i).sell_countdown = COUNTDOWN_LEN

\* a thirteenth bar that closes above the low of the eighth is not marked, and
\* the qualifying bar after it is not counted
C15_Witness ==
    /\ Done
    /\ \E j \in Rows : \E i \in Rows :
          /\ BuyThirteenth(j, i)
          /\ i + 1 \in Rows /\ ~BuySetupDone(i + 1) /\ BuyQualifies(i + 1)
          /\ Row(i + 1).buy_countdown = 0
          /\ Row(i).close > Row(NthBar(BuyQualified(j, i), 8)).low
          /\ Row(i).perfect_buy_13 = 0

\* the stop of a set of bars: their lowest low less the range of a bar that made
\* it, their highest high plus the range of a bar that made it
BuyCountdownStops(bars) ==
    { Row(b).low - (Row(b).high - Row(b).low) :
          b \in {k \in bars : \A m \in bars : Row(k).low <= Row(m).low} }
SellCountdownStops(bars) ==
    { Row(b).high + (Row(b).high - Row(b).low) :
          b \in {k \in bars : \A m \in bars : Row(k).high >= Row(m).high} }

(***************************************************************************)
(* C16: the buy countdown stop reported on the bar that completes a buy    *)
(* countdown is the lowest low of its thirteen qualifying bars less the    *)
(* range of the bar that made it, whether or not the thirteen bars are     *)
(* consecutive; the sell countdown stop is the highest high of its         *)
(* thirteen qualifying bars plus the range of the bar that made it.        *)
(***************************************************************************)
C16_CountdownStopValue ==
    Done => \A j \in Rows : \A i \in Rows :
        /\ BuyThirteenth(j, i) =>
               Row(i).buy_countdown_stop \in BuyCountdownStops(BuyQualified(j, i))
        /\ SellThirteenth(j, i) =>
               Row(i).sell_countdown_stop \in SellCountdownStops(SellQualified(j, i))

BuyCountdownDone(c) == Row(c).buy_countdown = COUNTDOWN_LEN
SellCountdownDone(c) == Row(c).sell_countdown = COUNTDOWN_LEN
NoBuyCountdownDone(a, b) == \A k \in a..b : ~BuyCountdownDone(k)
NoSellCountdownDone(a, b) == \A k \in a..b : ~SellCountdownDone(k)

\* the stop of the countdown completed at bar c is first hit at bar t
BuyCountdownStopHit(c, t) ==
    /\ c <= t /\ BuyCountdownDone(c) /\ NoBuyCountdownDone(c + 1, t)
    /\ \A k \in c..(t - 1) : Row(k).low > Row(c).buy_countdown_stop
    /\ Row(t).low <= Row(c).buy_countdown_stop
SellCountdownStopHit(c, t) ==
    /\ c <= t /\ SellCountdownDone(c) /\ NoSellCountdownDone(c + 1, t)
    /\ \A k \in c..(t - 1) : Row(k).high < Row(c).sell_countdown_stop
    /\ Row(t).high >= Row(c).sell_countdown_stop

(***************************************************************************)
(* C17: after the buy countdown stop of price P is hit at bar t, the first *)
(* later bar r whose low is above P, however far from t, reports the       *)
(* countdown stop active at P and reactivated; the sell countdown stop     *)
(* likewise with a high below P.                                           *)
(***************************************************************************)
C17_CountdownStopReactivation ==
    Done => \A c \in Rows : \A t \in Rows : \A r \in Rows : r > t =>
        /\ ( /\ BuyCountdownStopHit(c, t) /\ NoBuyCountdownDone(t + 1, r)
             /\ \A k \in (t + 1)..(r - 1) : Row(k).low <= Row(c).buy_countdown_stop
             /\ Row(r).low > Row(c).buy_countdown_stop ) =>
               /\ Row(r).buy_countdown_stop_active
               /\ Row(r).buy_countdown_stop = Row(c).buy_countdown_stop
               /\ Row(r).buy_countdown_stop_reactivated
        /\ ( /\ SellCountdownStopHit(c, t) /\ NoSellCountdownDone(t + 1, r)
             /\ \A k \in (t + 1)..(r - 1) : Row(k).high >= Row(c).sell_countdown_stop
             /\ Row(r).high < Row(c).sell_countdown_stop ) =>
               /\ Row(r).sell_countdown_stop_active
               /\ Row(r).sell_countdown_stop = Row(c).sell_countdown_stop
               /\ Row(r).sell_countdown_stop_reactivated

(***************************************************************************)
(* C18: from the bar c that completes a buy countdown with stop P up to    *)
(* the next buy countdown completion, every bar before the first bar t at  *)
(* or after c whose low is at or below P reports the countdown stop active *)
(* at P, and bar t reports it inactive and triggered; for each completion  *)
(* of a series.  The sell countdown stop likewise with a high at or above  *)
(* P.                                                                      *)
(***************************************************************************)
C18_CountdownStopTrigger ==
    Done => \A c \in Rows : \A t \in Rows :
        /\ (c <= t /\ BuyCountdownDone(c) /\ NoBuyCountdownDone(c + 1, t)) =>
               IF \A k \in c..t : Row(k).low > Row(c).buy_countdown_stop
               THEN /\ Row(t).buy_countdown_stop_active
                    /\ Row(t).buy_countdown_stop = Row(c).buy_countdown_stop
               ELSE BuyCountdownStopHit(c, t) =>
                        /\ ~Row(t).buy_countdown_stop_active
                        /\ Row(t).buy_countdown_stop_triggered
        /\ (c <= t /\ SellCountdownDone(c) /\ NoSellCountdownDone(c + 1, t)) =>
               IF \A k \in c..t : Row(k).high < Row(c).sell_countdown_stop
               THEN /\ Row(t).sell_countdown_stop_active
                    /\ Row(t).sell_countdown_stop = Row(c).sell_countdown_stop
               ELSE SellCountdownStopHit(c, t) =>
                        /\ ~Row(t).sell_countdown_stop_active
                        /\ Row(t).sell_countdown_stop_triggered

(***************************************************************************)
(* C19: a bar is marked a perfect buy 9 exactly when its buy setup count   *)
(* is 9 and its low is below the low three bars back, and a perfect sell 9 *)
(* exactly when its sell setup count is 9 and its high is above the high   *)
(* three bars back; so no bar whose count is not 9 is marked.              *)
(***************************************************************************)
C19_PerfectSetup ==
    Done => \A i \in Rows :
        /\ Row(i).perfect_buy_9 = 1
               <=> (BuySetupDone(i) /\ i >= 3 /\ Row(i).low < Row(i - 3).low)
        /\ Row(i).perfect_sell_9 = 1
               <=> (SellSetupDone(i) /\ i >= 3 /\ Row(i).high > Row(i - 3).high)

\* one buy setup marked, a later one whose low equals the low three bars back
\* not marked, and the bar after the marked one not marked
C19_Witness ==
    /\ Done
    /\ \E a \in Rows : \E b \in Rows :
          /\ a < b
          /\ BuySetupDone(a) /\ Row(a).perfect_buy_9 = 1
          /\ Row(a + 1).perfect_buy_9 = 0
          /\ BuySetupDone(b) /\ Row(b).low = Row(b - 3).low
          /\ Row(b).perfect_buy_9 = 0

(***************************************************************************)
(* C20: on every bar, each of the six levels that is reported active has   *)
(* its price present: the buy and sell TDST levels, the buy and sell setup *)
(* stops and the buy and sell countdown stops.                             *)
(***************************************************************************)
C20_ActiveImpliesPresent ==
    Done => \A i \in Rows :
        /\ Row(i).buy_tdst_active => Present(Row(i).buy_tdst_level)
        /\ Row(i).sell_tdst_active => Present(Row(i).sell_tdst_level)
        /\ Row(i).buy_setup_stop_active => Present(Row(i).buy_setup_stop)
        /\ Row(i).sell_setup_stop_active => Present(Row(i).sell_setup_stop)
        /\ Row(i).buy_countdown_stop_active => Present(Row(i).buy_countdown_stop)
        /\ Row(i).sell_countdown_stop_active => Present(Row(i).sell_countdown_stop)

\* a bar with the buy level and a reactivated buy countdown stop active, and a
\* bar with the buy setup stop active after the buy level was cancelled
C20_Witness ==
    /\ Done
    /\ \E i \in Rows :
          /\ i >= 2
          /\ Row(i - 1).buy_countdown_stop_reactivated
          /\ Row(i).buy_countdown_stop_active
          /\ Row(i).buy_tdst_active
          /\ \E k \in Rows : Row(k).buy_setup_stop_active /\ ~Row(k).buy_tdst_active

(***************************************************************************)
(* C21: on every bar the buy level price is present exactly when the buy   *)
(* level is active, and from the bar that cancels a buy level until the    *)
(* next buy setup completes no bar carries a buy level price; the sell     *)
(* level likewise.                                                         *)
(***************************************************************************)
C21_TdstPresentIffActive ==
    Done =>
        /\ \A i \in Rows :
              /\ Present(Row(i).buy_tdst_level) <=> Row(i).buy_tdst_active
              /\ Present(Row(i).sell_tdst_level) <=> Row(i).sell_tdst_active
        /\ \A t \in Rows : \A u \in Rows : (t >= 1 /\ u >= t) =>
              /\ ( /\ Row(t - 1).buy_tdst_active
                   /\ Row(t).close > Row(t - 1).buy_tdst_level
                   /\ NoBuySetupDone(t, u) ) => ~Present(Row(u).buy_tdst_level)
              /\ ( /\ Row(t - 1).sell_tdst_active
                   /\ Row(t).close < Row(t - 1).sell_tdst_level
                   /\ NoSellSetupDone(t, u) ) => ~Present(Row(u).sell_tdst_level)

\* a sell level cancelled by a close below it, absent on that bar and on a later
\* bar that closes back above the cancelled price
C21_Witness ==
    /\ Done
    /\ \E t \in Rows : \E u \in Rows :
          /\ t >= 1 /\ u > t
          /\ Row(t - 1).sell_tdst_active
          /\ Row(t).close < Row(t - 1).sell_tdst_level
          /\ NoSellSetupDone(t, u)
          /\ Row(u).close > Row(t - 1).sell_tdst_level
          /\ ~Present(Row(t).sell_tdst_level)
          /\ ~Present(Row(u).sell_tdst_level)
          /\ ~Row(u).sell_tdst_active

(***************************************************************************)
(* C22: the rows of bars 0..k in the result for a whole series are the     *)
(* rows of the result for the series cut after bar k, for every k: bars    *)
(* appended later change no field of an earlier row.                       *)
(***************************************************************************)
BarsOf(d) == [k \in 1..Len(d) |-> Bar(d[k].high, d[k].low, d[k].close)]
Prefix(d, k) == SubSeq(d, 1, k + 1)

C22_PrefixStable ==
    Done => \A k \in Rows : k + 1 < Len(df) =>
        Prefix(df, k) = calculate_tdsequential(Prefix(BarsOf(df), k))

\* a buy countdown completed at bar c with its stop active, the stop hit on a
\* later bar t: the rows up to c and up to t are those of the series cut there
C22_Witness ==
    /\ Done
    /\ \E c \in Rows : \E t \in Rows :
          /\ t > c /\ t + 1 \in Rows
          /\ Row(c).buy_countdown = 13
          /\ Row(c).buy_countdown_stop_active
          /\ Row(t).buy_countdown_stop_triggered
          /\ Prefix(df, c) = calculate_tdsequential(Prefix(BarsOf(df), c))
          /\ Prefix(df, t) = calculate_tdsequential(Prefix(BarsOf(df), t))

(***************************************************************************)
(* C23: a bar reports a buy count above 0 only if a buy setup completed at *)
(* some bar j at or before it and, on the bars after j up to it, no sell   *)
(* setup completed and no close was above the highest high of the setup    *)
(* of j; the sell count likewise, with no buy setup completed and no close *)
(* below the lowest low of the setup.                                      *)
(***************************************************************************)
BuyCountdownAlive(j, i) ==
    /\ BuySetupDone(j)
    /\ NoSellSetupDone(j + 1, i)
    /\ \A k \in (j + 1)..i : Row(k).close <= HighestHigh(j)
SellCountdownAlive(j, i) ==
    /\ SellSetupDone(j)
    /\ NoBuySetupDone(j + 1, i)
    /\ \A k \in (j + 1)..i : Row(k).close >= LowestLow(j)

C23_CountOnlyInsideCountdown ==
    Done => \A i \in Rows :
        /\ Row(i).buy_countdown > 0 => \E j \in 0..i : BuyCountdownAlive(j, i)
        /\ Row(i).sell_countdown > 0 => \E j \in 0..i : SellCountdownAlive(j, i)

\* a sell countdown that counted, was cancelled by a close below its setup's
\* lowest low and reports 0 from there on, and a later sell setup whose countdown
\* counts again
C23_Witness ==
    /\ Done
    /\ \E j \in Rows : \E t \in Rows : \E i \in Rows :
          /\ j < t /\ t < i
          /\ SellSetupDone(j)
          /\ Row(t - 1).sell_countdown > 0
          /\ Row(t).close < LowestLow(j)
          /\ Row(t).sell_countdown = 0
          /\ Row(i).sell_countdown > 0
          /\ ~SellCountdownAlive(j, i)
          /\ \E k \in (t + 1)..i : SellCountdownAlive(k, i)

(***************************************************************************)
(* C24: on every bar the buy and sell setup counts are within 0..9 and the *)
(* buy and sell countdown counts within 0..13, and on bars 0..3 both setup *)
(* counts are 0.                                                           *)
(***************************************************************************)
C24_CountRanges ==
    Done => \A i \in Rows :
        /\ Row(i).buy_setup \in 0..SETUP_LEN
        /\ Row(i).sell_setup \in 0..SETUP_LEN
        /\ Row(i).buy_countdown \in 0..COUNTDOWN_LEN
        /\ Row(i).sell_countdown \in 0..COUNTDOWN_LEN
        /\ i < SETUP_LOOKBACK => Row(i).buy_setup = 0 /\ Row(i).sell_setup = 0

\* a series whose bar 3 closes below bar 0 and whose bar 4 counts 1, with a
\* setup count of 9 followed by 1 and a countdown count of 13 followed by 0
C24_Witness ==
    /\ Done
    /\ Len(df) > SETUP_LOOKBACK
    /\ Row(3).close < Row(0).close /\ Row(3).buy_setup = 0 /\ Row(4).buy_setup = 1
    /\ \E i \in Rows : i >= 1 /\ Row(i - 1).buy_setup = 9 /\ Row(i).buy_setup = 1
    /\ \E i \in Rows : i >= 1 /\ Row(i - 1).buy_countdown = 13 /\ Row(i).buy_countdown = 0
                              /\ BuyQualifies(i)

(***************************************************************************)
(* C25: for a series whose every close is below the close before it, the   *)
(* sell setup count is 0 on every bar and the buy setup count is 0 on bars *)
(* 0..3 and runs 1, 2, .., 9, 1, 2, .. from bar 4 on.                      *)
(***************************************************************************)
StrictlyFalling == \A i \in Rows : i >= 1 => Row(i).close < Row(i - 1).close

C25_FallingCloses ==
    (Done /\ StrictlyFalling) => \A i \in Rows :
        /\ Row(i).sell_setup = 0
        /\ Row(i).buy_setup =
              IF i < SETUP_LOOKBACK THEN 0 ELSE ((i - SETUP_LOOKBACK) % SETUP_LEN) + 1

\* a falling series with closes falling by more than one tick on some bar,
\* long enough for a second setup to complete
C25_Witness ==
    /\ Done /\ StrictlyFalling
    /\ Len(df) > SETUP_LOOKBACK + 2 * SETUP_LEN
    /\ \E i \in Rows : i >= 1 /\ Row(i).close < Row(i - 1).close - 1
    /\ Row(SETUP_LOOKBACK + SETUP_LEN - 1).buy_setup = 9
    /\ Row(SETUP_LOOKBACK + SETUP_LEN).buy_setup = 1
    /\ Row(SETUP_LOOKBACK + 2 * SETUP_LEN - 1).buy_setup = 9

(***************************************************************************)
(* C26: the function raises its error exactly when one of open, high, low  *)
(* and close is among the frame's columns in no spelling, upper or lower   *)
(* case, and it has then computed no column: the rows are the bars as      *)
(* they came.                                                              *)
(***************************************************************************)
AnyCase(col) == {sp[col] : sp \in Spellings}
Supplies(col) == input.columns \cap AnyCase(col) # {}
BarFields == {"high", "low", "close"}

C26_MissingColumnRaises ==
    pc # "preprocess" =>
        /\ pc = "raised" <=> \E col \in required_cols : ~Supplies(col)
        /\ pc = "raised" => \A k \in DOMAIN df : DOMAIN df[k] = BarFields

\* a frame of MaxBars bars with capitalised Open, High and Low and a Volume
\* column but no close, raised on
C26_Witness ==
    /\ pc = "raised"
    /\ input.columns = {"Open", "High", "Low", "Volume"}
    /\ Len(df) = MaxBars
    /\ \A k \in DOMAIN df : DOMAIN df[k] = BarFields

(***************************************************************************)
(* C27: a frame whose timestamps are not in strictly increasing order is   *)
(* raised on before anything is computed.                                  *)
(***************************************************************************)
StrictlyIncreasing(index) == \A k \in 1..(Len(index) - 1) : index[k] < index[k + 1]

C27_UnorderedIndexRejected ==
    (pc # "preprocess" /\ ~StrictlyIncreasing(input.index)) => pc = "raised"

(***************************************************************************)
(* C28: a frame of no rows is raised on; no result is computed for it.     *)
(***************************************************************************)
C28_NoBarsRejected ==
    (pc # "preprocess" /\ Len(df) = 0) => pc = "raised"

(***************************************************************************)
(* C29: in a series of fewer than 5 bars every buy and sell setup count is *)
(* 0 (as stated for fewer than 10 bars: C29_NoSetupUnderTenBars).          *)
(***************************************************************************)
NoSetupCount == \A i \in Rows : Row(i).buy_setup = 0 /\ Row(i).sell_setup = 0

C29_NoSetupUnderFiveBars == (Done /\ Len(df) < SETUP_LOOKBACK + 1) => NoSetupCount

\* C29 as stated: in a series of fewer than 10 bars every setup count is 0
C29_NoSetupUnderTenBars == (Done /\ Len(df) < SETUP_LEN + 1) => NoSetupCount

\* four bars, each closing below the one before, without a setup count
C29_Witness ==
    /\ Done
    /\ Len(df) = SETUP_LOOKBACK
    /\ \A i \in Rows : i >= 1 => Row(i).close < Row(i - 1).close
    /\ NoSetupCount

(***************************************************************************)
(* C30: in a series of fewer than 22 bars no bar reports a buy or sell     *)
(* count of 13 and no bar carries a buy or sell countdown stop.            *)
(***************************************************************************)
C30_NoCompletionUnder22Bars ==
    (Done /\ Len(df) < SETUP_LEN + COUNTDOWN_LEN) => \A i \in Rows :
        /\ Row(i).buy_countdown # COUNTDOWN_LEN
        /\ Row(i).sell_countdown # COUNTDOWN_LEN
        /\ ~Present(Row(i).buy_countdown_stop)
        /\ ~Present(Row(i).sell_countdown_stop)

\* a series of 21 bars whose buy countdown has counted every bar from the
\* completion of the setup on and stands at 9 on the last bar
C30_Witness ==
    /\ Done
    /\ Len(df) = SETUP_LEN + COUNTDOWN_LEN - 1
    /\ BuySetupDone(Trend - 1)
    /\ Row(Len(df) - 1).buy_countdown = Len(df) - (Trend - 1)

(***************************************************************************)
(* C31: the bar whose close goes above the highest high of the setup that  *)
(* began a running buy countdown reports the buy countdown not active; the *)
(* bar whose close goes below the lowest low of the setup of a running     *)
(* sell countdown reports the sell countdown not active.                   *)
(***************************************************************************)
C31_CancelBarNotActive ==
    Done => \A j \in Rows : \A i \in Rows :
        /\ (BuyRunning(j, i) /\ NoSetupDone(i) /\ Row(i).close > HighestHigh(j))
               => Row(i).buy_countdown_active = 0
        /\ (SellRunning(j, i) /\ NoSetupDone(i) /\ Row(i).close < LowestLow(j))
               => Row(i).sell_countdown_active = 0

(***************************************************************************)
(* C32: no bar reports a stop both active and triggered: the buy and sell  *)
(* setup stops and the buy and sell countdown stops.                       *)
(***************************************************************************)
C32_NeverActiveAndTriggered ==
    Done => \A i \in Rows :
        /\ ~(Row(i).buy_setup_stop_active /\ Row(i).buy_stop_triggered)
        /\ ~(Row(i).sell_setup_stop_active /\ Row(i).sell_stop_triggered)
        /\ ~(Row(i).buy_countdown_stop_active /\ Row(i).buy_countdown_stop_triggered)
        /\ ~(Row(i).sell_countdown_stop_active /\ Row(i).sell_countdown_stop_triggered)

(***************************************************************************)
(* C33: a bar with a buy count above 0 reports the buy level active, at    *)
(* the highest high of the nine bars of the latest buy setup completed at  *)
(* or before it, which is the price the countdown is cancelled against; a  *)
(* bar with a sell count above 0 reports the sell level active at the      *)
(* lowest low of the latest sell setup.                                    *)
(***************************************************************************)
LatestBuySetup(j, i) == j <= i /\ BuySetupDone(j) /\ NoBuySetupDone(j + 1, i)
LatestSellSetup(j, i) == j <= i /\ SellSetupDone(j) /\ NoSellSetupDone(j + 1, i)

C33_CountdownSharesTdstLevel ==
    Done => \A i \in Rows :
        /\ Row(i).buy_countdown > 0 =>
              \E j \in Rows : /\ LatestBuySetup(j, i)
                              /\ Row(i).buy_tdst_active
                              /\ Row(i).buy_tdst_level = HighestHigh(j)
        /\ Row(i).sell_countdown > 0 =>
              \E j \in Rows : /\ LatestSellSetup(j, i)
                              /\ Row(i).sell_tdst_active
                              /\ Row(i).sell_tdst_level = LowestLow(j)

\* a bar that closes at the buy level with the count standing and the level
\* active, and the next bar closing above it with the count 0 and the level gone
C33_Witness ==
    /\ Done
    /\ \E j \in Rows : \E i \in Rows :
          /\ i + 1 \in Rows
          /\ LatestBuySetup(j, i + 1)
          /\ Row(i).close = HighestHigh(j)
          /\ Row(i).buy_countdown > 0
          /\ Row(i).buy_tdst_active
          /\ Row(i + 1).close > HighestHigh(j)
          /\ Row(i + 1).buy_countdown = 0
          /\ ~Row(i + 1).buy_tdst_active

(***************************************************************************)
(* C34: on a bar that completes a sell setup, a buy level active on the    *)
(* bar before and not closed above is reported active at the same price,   *)
(* a buy setup stop active on the bar before whose price the low stays     *)
(* above is reported active at the same price, and the buy count is 0; on  *)
(* a bar that completes a buy setup the sell level, the sell setup stop    *)
(* and the sell count likewise.                                            *)
(***************************************************************************)
C34_OppositeLevelsUntouched ==
    Done => \A i \in Rows : i >= 1 =>
        /\ SellSetupDone(i) =>
              /\ (Row(i - 1).buy_tdst_active /\ Row(i).close <= Row(i - 1).buy_tdst_level)
                     => /\ Row(i).buy_tdst_active
                        /\ Row(i).buy_tdst_level = Row(i - 1).buy_tdst_level
              /\ (Row(i - 1).buy_setup_stop_active /\ Row(i).low > Row(i - 1).buy_setup_stop)
                     => /\ Row(i).buy_setup_stop_active
                        /\ Row(i).buy_setup_stop = Row(i - 1).buy_setup_stop
              /\ Row(i).buy_countdown = 0
        /\ BuySetupDone(i) =>
              /\ (Row(i - 1).sell_tdst_active /\ Row(i).close >= Row(i - 1).sell_tdst_level)
                     => /\ Row(i).sell_tdst_active
                        /\ Row(i).sell_tdst_level = Row(i - 1).sell_tdst_level
              /\ (Row(i - 1).sell_setup_stop_active /\ Row(i).high < Row(i - 1).sell_setup_stop)
                     => /\ Row(i).sell_setup_stop_active
                        /\ Row(i).sell_setup_stop = Row(i - 1).sell_setup_stop
              /\ Row(i).sell_countdown = 0

\* a sell setup completing under an active buy level and above an active buy
\* setup stop, over a buy countdown that had counted: level and stop carried,
\* the count dropped
C34_Witness ==
    /\ Done
    /\ \E i \in Rows :
          /\ i >= 1 /\ SellSetupDone(i)
          /\ Row(i - 1).buy_tdst_active /\ Row(i).close <= Row(i - 1).buy_tdst_level
          /\ Row(i).buy_tdst_active /\ Row(i).buy_tdst_level = Row(i - 1).buy_tdst_level
          /\ Row(i - 1).buy_setup_stop_active /\ Row(i).low > Row(i - 1).buy_setup_stop
          /\ Row(i).buy_setup_stop_active
          /\ Row(i - 1).buy_countdown > 0 /\ Row(i).buy_countdown = 0

(***************************************************************************)
(* C35: on the bar that completes a buy setup the buy count is 1 when the  *)
(* close is at or below the low two bars earlier and 0 otherwise, whatever *)
(* the count was on the bar before; on the bar that completes a sell setup *)
(* the sell count is 1 when the close is at or above the high two bars     *)
(* earlier and 0 otherwise.                                                *)
(***************************************************************************)
C35_CompletionBarCountsFirst ==
    Done => \A i \in Rows :
        /\ BuySetupDone(i) =>
              Row(i).buy_countdown = (IF Row(i).close <= Row(i - 2).low THEN 1 ELSE 0)
        /\ SellSetupDone(i) =>
              Row(i).sell_countdown = (IF Row(i).close >= Row(i - 2).high THEN 1 ELSE 0)

\* a buy setup completing on a qualifying bar over a count of 2 or more, and
\* another completing over a running count on a bar that does not qualify
C35_Witness ==
    /\ Done
    /\ \E i \in Rows :
          /\ BuySetupDone(i) /\ Row(i - 1).buy_countdown >= 2
          /\ Row(i).close <= Row(i - 2).low /\ Row(i).buy_countdown = 1
    /\ \E i \in Rows :
          /\ BuySetupDone(i) /\ Row(i - 1).buy_countdown >= 1
          /\ Row(i).close > Row(i - 2).low /\ Row(i).buy_countdown = 0

(***************************************************************************)
(* C36: when a buy setup completes on a bar whose low is at or below the   *)
(* buy setup stop that was active on the bar before, and the bar of the    *)
(* lowest low of the new setup has a positive range, that bar reports no   *)
(* buy stop trigger and reports the new stop active; when a sell setup     *)
(* completes on a bar whose high is at or above the sell setup stop active *)
(* on the bar before, and the bar of the highest high has a positive       *)
(* range, that bar reports no sell stop trigger and the new stop active.   *)
(***************************************************************************)
C36_NewStopReplacesCrossedStop ==
    Done => \A i \in Rows : i >= 1 =>
        /\ ( /\ BuySetupDone(i)
             /\ Row(i - 1).buy_setup_stop_active
             /\ Row(i).low <= Row(i - 1).buy_setup_stop
             /\ Row(LowBar(i)).high > Row(LowBar(i)).low )
               => /\ ~Row(i).buy_stop_triggered
                  /\ Row(i).buy_setup_stop_active
                  /\ Row(i).buy_setup_stop = BuyStopOf(i)
        /\ ( /\ SellSetupDone(i)
             /\ Row(i - 1).sell_setup_stop_active
             /\ Row(i).high >= Row(i - 1).sell_setup_stop
             /\ Row(HighBar(i)).high > Row(HighBar(i)).low )
               => /\ ~Row(i).sell_stop_triggered
                  /\ Row(i).sell_setup_stop_active
                  /\ Row(i).sell_setup_stop = SellStopOf(i)

\* a second buy setup completing at or under the stop of the first, which was
\* active until then
C36_Witness ==
    /\ Done
    /\ \E i \in Rows :
          /\ i >= 1 /\ BuySetupDone(i)
          /\ Row(i - 1).buy_setup_stop_active
          /\ Row(i).low <= Row(i - 1).buy_setup_stop
          /\ Row(LowBar(i)).high > Row(LowBar(i)).low
          /\ ~Row(i).buy_stop_triggered
          /\ Row(i).buy_setup_stop_active
          /\ Row(i).buy_setup_stop < Row(i - 1).buy_setup_stop

(***************************************************************************)
(* The rows apply_simple_strategy has filled, for C37.                     *)
(***************************************************************************)
Held == pc = "returns"
PositionBefore(i) == IF i = 0 THEN -1 ELSE Row(i - 1).Position
PositionChanges(i) == Row(i).Position # PositionBefore(i)
SignalsBefore(i) == {k \in Rows : k < i /\ Row(k).Signal # 0}

(***************************************************************************)
(* C37: once the loop has run, Position is -1 or 1 on every bar and -1 on  *)
(* every bar before the first Raw_Signal of 1; it changes to 1 only on a   *)
(* bar with Raw_Signal 1 after a bar at -1, and to -1 only on a bar with   *)
(* Raw_Signal -1 after a bar at 1; Signal is other than 0 exactly on the   *)
(* bars where Position changes, where it equals the new Position; and the  *)
(* Signals other than 0 are 1, -1, 1, ... in bar order, the first being 1. *)
(***************************************************************************)
C37_PositionHolding ==
    Held => \A i \in Rows :
        /\ Row(i).Position \in {-1, 1}
        /\ (\A k \in 0..i : Row(k).Raw_Signal # 1) => Row(i).Position = -1
        /\ PositionChanges(i) =>
              \/ Row(i).Position = 1 /\ Row(i).Raw_Signal = 1 /\ PositionBefore(i) = -1
              \/ Row(i).Position = -1 /\ Row(i).Raw_Signal = -1 /\ PositionBefore(i) = 1
        /\ (Row(i).Signal # 0) <=> PositionChanges(i)
        /\ Row(i).Signal # 0 => Row(i).Signal = Row(i).Position
        /\ Row(i).Signal # 0 =>
              Row(i).Signal = (IF Cardinality(SignalsBefore(i)) % 2 = 0 THEN 1 ELSE -1)

\* a sell signal while flat and a buy signal while long both held back, then
\* an entry, an exit and a second entry
C37_Witness ==
    /\ Held
    /\ \E i \in Rows : Row(i).Raw_Signal = -1 /\ PositionBefore(i) = -1 /\ Row(i).Signal = 0
    /\ \E i \in Rows : Row(i).Raw_Signal = 1 /\ PositionBefore(i) = 1 /\ Row(i).Signal = 0
    /\ \E i \in Rows : Row(i).Signal = 1 /\ Cardinality(SignalsBefore(i)) = 2

(***************************************************************************)
(* The rows of the two tables, for C38.                                    *)
(***************************************************************************)
Owns(u, a) == a.user_id = u.user_id
Owner(u) == \E a \in StockAsset : Owns(u, a)

====
